---- MODULE Spec2Model ----
(***************************************************************************)
(* A model of the biathlon analytics platform (backend/app): the IBU data  *)
(* adapter and its HTTP endpoints, the World-Cup points computations, the   *)
(* database session dependency, the athlete CRUD endpoint, the analytics    *)
(* components, the digital-twin engine and the fatigue-resistance engine.   *)
(*                                                                         *)
(* Each subsystem has its own variables, initial predicate, actions and     *)
(* specification; a subsystem's variables stay at their idle value in the   *)
(* specifications of the others.                                            *)
(***************************************************************************)
EXTENDS Integers, Sequences, FiniteSets, TLC

VARIABLES
    \* World-Cup points (services/*: rank -> points)
    ranks,          \* the finished ranks handed to the points computation
    points,         \* the last computation: [fn, value]
    \* the external results authority and the HTTP gateway
    upstream,       \* what the biathlonresults client answers: a mode
    athletes_cache, \* lru_cache of IBUFullService.get_athletes, least recent first
    athlete_results,\* br.all_results(id)["Results"] of the athlete the authority knows
    response,       \* the last HTTP response sent
    \* the relational store and the requests that hold a session (core/database.py,
    \* api/v1/endpoints/athletes.py)
    athletes_table, \* the committed rows of table "athletes"
    requests,       \* per request: where it is, its session and what it was answered
    exit_before_response, \* whether the framework runs a dependency's exit code
                          \* before it sends the response
    \* the fatigue engine (services/fatigue_analysis.py)
    shooting_bouts, \* the bouts of the race history handed to the engine
    profile,        \* the outcome of the last analyze_athlete_complete
    czech_team_data, \* FatigueResistanceEngine.czech_team_data
    \* the analytics components called on their own
    analytics,      \* the last call: the function, what it was given, its outcome
    \* the digital twin engine (services/digital_twin.py)
    twins,          \* DigitalTwinEngine.twins: athlete id -> reference to its twin
    heap,           \* the objects the references point to
    rng_state,      \* the state of numpy's global random generator
    whatif,         \* the outcome of the last run_what_if_scenario
    \* the shooting-string parser (IBUFullService._parse_shooting)
    shooting_str,  \* the "Shootings" text of one result
    shooting, \* what _parse_shooting returned for it
    \* the season metrics of get_athlete_performance (consistency, recent form)
    season_ranks,  \* the finished ranks of the season, in the order the service holds them
    form, \* the metrics the last get_athlete_performance returned
    \* a memoized lookup (functools.lru_cache on a service method)
    memo,  \* the entries of the lru_cache, least recently used first
    source,  \* what the data source holds for the watched argument combination
    lookups,  \* how many other argument combinations were looked up since the process started
    answer,  \* the last lookup: its arguments, the value returned, whether the source was read
    watch, \* for the watched combination: the value its previous call returned, and the other combinations looked up since
    \* the ingestion CLI (load_data.py)
    failing_races,  \* the races whose download fails
    run, \* the run of main: where it stands, the downloads attempted, how it ended
    \* the current season of the adapters (IBUFullService, IBUDataService)
    clock,  \* datetime.now(): year and month
    adapter, \* the adapter constructed: its class, when, its current_season, the season its last query selected
    \* twins built and races simulated for observation (services/digital_twin.py)
    generator,  \* the state of numpy's global random generator in this process
    engine,  \* the twins registry of the engine and the objects it refers to
    created,  \* of the create_twin calls observed: the first one, the last one
    simulation, \* the simulate_race call under way: its arguments, its loop variable, its state dict
    \* RealAnalyticsService.generate_training_recommendations
    csv_data,  \* what the CSV files hold of the athlete asked about
    advice, \* the recommendations returned
    \* DigitalTwinEngine.generate_training_plan
    trainee,  \* the twin registered for the athlete asked about, if any
    training_plan, \* what the last generate_training_plan returned or raised
    \* GET /analytics/athlete/{id}/vs-world
    authority,  \* what athlete_results answers for each athlete
    performance_memo,  \* the dicts the lru_cache of IBUDataService.get_athlete_performance holds, by ibu_id
    vs_world, \* the last response of the endpoint, with its request
    \* GET /digital-twin/{id}/status
    twin_service,  \* digital_twin_engine of this process: twins, the objects they refer to, simulations, and numpy's generator
    performed,  \* the simulations performed for the athlete since the process started
    twin_status, \* the last response of a digital-twin endpoint
    \* the team fatigue analysis (api/endpoints/fatigue.py)
    team_results,  \* br.all_results(id)["Results"] of each athlete of the team
    team_engine,  \* czech_team_data of the endpoint module's fatigue_engine
    team_fatigue  \* the last answer of GET /fatigue/team/analysis

varsPoints == <<ranks, points>>
varsApi == <<upstream, athletes_cache, athlete_results, response>>
varsDb == <<athletes_table, requests, exit_before_response>>
varsFatigue == <<shooting_bouts, profile, czech_team_data>>
varsAnalytics == <<analytics>>
varsTwin == <<twins, heap, rng_state, whatif>>
varsShooting == <<shooting_str, shooting>>
varsForm == <<season_ranks, form>>
varsMemo == <<memo, source, lookups, answer, watch>>
varsIngest == <<failing_races, run>>
varsSeason == <<clock, adapter>>
varsSim == <<generator, engine, created, simulation>>
varsAdvice == <<csv_data, advice>>
varsTraining == <<trainee, training_plan>>
varsVsWorld == <<authority, performance_memo, vs_world>>
varsStatus == <<twin_service, performed, twin_status>>
varsTeamFatigue == <<team_results, team_engine, team_fatigue>>

vars == <<varsPoints, varsApi, varsDb, varsFatigue, varsAnalytics, varsTwin, varsShooting, varsForm, varsMemo, varsIngest, varsSeason, varsSim, varsAdvice, varsTraining, varsVsWorld, varsStatus, varsTeamFatigue>>

\* what the actions of one subsystem leave alone
notPoints == <<varsApi, varsDb, varsFatigue, varsAnalytics, varsTwin, varsShooting, varsForm, varsMemo, varsIngest, varsSeason, varsSim, varsAdvice, varsTraining, varsVsWorld, varsStatus, varsTeamFatigue>>
notApi == <<varsPoints, varsDb, varsFatigue, varsAnalytics, varsTwin, varsShooting, varsForm, varsMemo, varsIngest, varsSeason, varsSim, varsAdvice, varsTraining, varsVsWorld, varsStatus, varsTeamFatigue>>
notDb == <<varsPoints, varsApi, varsFatigue, varsAnalytics, varsTwin, varsShooting, varsForm, varsMemo, varsIngest, varsSeason, varsSim, varsAdvice, varsTraining, varsVsWorld, varsStatus, varsTeamFatigue>>
notFatigue == <<varsPoints, varsApi, varsDb, varsAnalytics, varsTwin, varsShooting, varsForm, varsMemo, varsIngest, varsSeason, varsSim, varsAdvice, varsTraining, varsVsWorld, varsStatus, varsTeamFatigue>>
notAnalytics == <<varsPoints, varsApi, varsDb, varsFatigue, varsTwin, varsShooting, varsForm, varsMemo, varsIngest, varsSeason, varsSim, varsAdvice, varsTraining, varsVsWorld, varsStatus, varsTeamFatigue>>
notTwin == <<varsPoints, varsApi, varsDb, varsFatigue, varsAnalytics, varsShooting, varsForm, varsMemo, varsIngest, varsSeason, varsSim, varsAdvice, varsTraining, varsVsWorld, varsStatus, varsTeamFatigue>>
notShooting == <<varsPoints, varsApi, varsDb, varsFatigue, varsAnalytics, varsTwin, varsForm, varsMemo, varsIngest, varsSeason, varsSim, varsAdvice, varsTraining, varsVsWorld, varsStatus, varsTeamFatigue>>
notForm == <<varsPoints, varsApi, varsDb, varsFatigue, varsAnalytics, varsTwin, varsShooting, varsMemo, varsIngest, varsSeason, varsSim, varsAdvice, varsTraining, varsVsWorld, varsStatus, varsTeamFatigue>>
notMemo == <<varsPoints, varsApi, varsDb, varsFatigue, varsAnalytics, varsTwin, varsShooting, varsForm, varsIngest, varsSeason, varsSim, varsAdvice, varsTraining, varsVsWorld, varsStatus, varsTeamFatigue>>
notIngest == <<varsPoints, varsApi, varsDb, varsFatigue, varsAnalytics, varsTwin, varsShooting, varsForm, varsMemo, varsSeason, varsSim, varsAdvice, varsTraining, varsVsWorld, varsStatus, varsTeamFatigue>>
notSeason == <<varsPoints, varsApi, varsDb, varsFatigue, varsAnalytics, varsTwin, varsShooting, varsForm, varsMemo, varsIngest, varsSim, varsAdvice, varsTraining, varsVsWorld, varsStatus, varsTeamFatigue>>
notSim == <<varsPoints, varsApi, varsDb, varsFatigue, varsAnalytics, varsTwin, varsShooting, varsForm, varsMemo, varsIngest, varsSeason, varsAdvice, varsTraining, varsVsWorld, varsStatus, varsTeamFatigue>>
notAdvice == <<varsPoints, varsApi, varsDb, varsFatigue, varsAnalytics, varsTwin, varsShooting, varsForm, varsMemo, varsIngest, varsSeason, varsSim, varsTraining, varsVsWorld, varsStatus, varsTeamFatigue>>
notTraining == <<varsPoints, varsApi, varsDb, varsFatigue, varsAnalytics, varsTwin, varsShooting, varsForm, varsMemo, varsIngest, varsSeason, varsSim, varsAdvice, varsVsWorld, varsStatus, varsTeamFatigue>>
notVsWorld == <<varsPoints, varsApi, varsDb, varsFatigue, varsAnalytics, varsTwin, varsShooting, varsForm, varsMemo, varsIngest, varsSeason, varsSim, varsAdvice, varsTraining, varsStatus, varsTeamFatigue>>
notStatus == <<varsPoints, varsApi, varsDb, varsFatigue, varsAnalytics, varsTwin, varsShooting, varsForm, varsMemo, varsIngest, varsSeason, varsSim, varsAdvice, varsTraining, varsVsWorld, varsTeamFatigue>>
notTeamFatigue == <<varsPoints, varsApi, varsDb, varsFatigue, varsAnalytics, varsTwin, varsShooting, varsForm, varsMemo, varsIngest, varsSeason, varsSim, varsAdvice, varsTraining, varsVsWorld, varsStatus>>

(***************************************************************************)
(* Generic helpers                                                         *)
(***************************************************************************)

\* Python's dict.get(key, default) on a TLA+ function
DictGet(d, k, default) == IF k \in DOMAIN d THEN d[k] ELSE default

\* Python's sum() over a list of integers
RECURSIVE SumSeq(_)
SumSeq(s) == IF s = <<>> THEN 0 ELSE Head(s) + SumSeq(Tail(s))

\* all sequences over S of length 0..n
SeqsUpTo(S, n) == UNION {[1..k -> S] : k \in 0..n}

Min2(a, b) == IF a <= b THEN a ELSE b
Max2(a, b) == IF a >= b THEN a ELSE b

(***************************************************************************)
(* World-Cup points                                                        *)
(***************************************************************************)

\* the longest rank list handed to a points computation
MaxRanks == 5
\* the integer ranks checked one by one: -BelowRanks..MaxRank
BelowRanks == 3
MaxRank == 43
MinRank == 0 - BelowRanks

\* the points_map literal of IBUFullService._calculate_points and of
\* DataService._calculate_total_points (the two literals are the same)
points_map ==
    [r \in 1..40 |->
        CASE r = 1 -> 60 [] r = 2 -> 54 [] r = 3 -> 48 [] r = 4 -> 43
          [] r = 5 -> 40 [] r = 6 -> 38 [] r = 7 -> 36 [] r = 8 -> 34
          [] r = 9 -> 32 [] r = 10 -> 31 [] r = 11 -> 30 [] r = 12 -> 29
          [] r = 13 -> 28 [] r = 14 -> 27 [] r = 15 -> 26 [] r = 16 -> 25
          [] r = 17 -> 24 [] r = 18 -> 23 [] r = 19 -> 22 [] r = 20 -> 21
          [] r = 21 -> 20 [] r = 22 -> 19 [] r = 23 -> 18 [] r = 24 -> 17
          [] r = 25 -> 16 [] r = 26 -> 15 [] r = 27 -> 14 [] r = 28 -> 13
          [] r = 29 -> 12 [] r = 30 -> 11 [] r = 31 -> 10 [] r = 32 -> 9
          [] r = 33 -> 8 [] r = 34 -> 7 [] r = 35 -> 6 [] r = 36 -> 5
          [] r = 37 -> 4 [] r = 38 -> 3 [] r = 39 -> 2 [] r = 40 -> 1]

\* the ten-entry points_map literal of IBUDataService._rank_to_points
points_map_top10 == [r \in 1..10 |-> points_map[r]]

\* IBUFullService._calculate_points(ranks)
RECURSIVE _calculate_points(_)
_calculate_points(rs) ==
    IF rs = <<>> THEN 0
    ELSE (IF Head(rs) <= 40 THEN DictGet(points_map, Head(rs), 0) ELSE 0)
         + _calculate_points(Tail(rs))

\* a pandas float Series of ranks: each element is a float, possibly NaN
FloatSeries(rs) == [i \in 1..Len(rs) |-> [isna |-> FALSE, v |-> rs[i]]]

\* DataService._calculate_total_points(ranks): ranks is a float Series; int(rank)
\* of an integer-valued float is that integer
RECURSIVE _calculate_total_points(_)
_calculate_total_points(series) ==
    IF series = <<>> THEN 0
    ELSE (IF ~Head(series).isna /\ Head(series).v <= 40
          THEN DictGet(points_map, Head(series).v, 0) ELSE 0)
         + _calculate_total_points(Tail(series))

\* _rank_to_points with the boundary of the arithmetic branch off by one
_rank_to_points_exclusive_40(rank) ==
    IF rank <= 10 THEN DictGet(points_map_top10, rank, 0)
    ELSE IF rank < 40 THEN 41 - rank
    ELSE 0

\* IBUDataService._rank_to_points(rank)
_rank_to_points(rank) ==
    IF rank <= 10 THEN DictGet(points_map_top10, rank, 0)
    ELSE IF rank <= 40 THEN 41 - rank
    ELSE 0

\* IBUDataService.get_athlete_performance: 'points': sum(_rank_to_points(r) for r in ranks)
season_points(rs) == SumSeq([i \in 1..Len(rs) |-> _rank_to_points(rs[i])])

\* the rank lists tried: every single integer rank of MinRank..MaxRank, and every
\* list of at most MaxRanks ranks of a season that has in-points and out-of-points finishes
SeasonRanks == {3, 7, 12, 25, 40, 41}
RankLists == {<<r>> : r \in MinRank..MaxRank} \cup SeqsUpTo(SeasonRanks, MaxRanks)

PointsIdle == ranks = <<>> /\ points = [fn |-> "none", value |-> 0]

StartPoints ==
    /\ ranks \in RankLists
    /\ points = [fn |-> "none", value |-> 0]

CalculatePoints ==
    /\ points' = [fn |-> "IBUFullService._calculate_points",
                  value |-> _calculate_points(ranks)]
    /\ UNCHANGED <<ranks, notPoints>>

CalculateTotalPoints ==
    /\ points' = [fn |-> "DataService._calculate_total_points",
                  value |-> _calculate_total_points(FloatSeries(ranks))]
    /\ UNCHANGED <<ranks, notPoints>>

RankToPoints ==
    /\ points' = [fn |-> "IBUDataService._rank_to_points",
                  value |-> season_points(ranks)]
    /\ UNCHANGED <<ranks, notPoints>>

NextPoints == CalculatePoints \/ CalculateTotalPoints \/ RankToPoints

\* the World-Cup points table as the claim states it
WorldCupPoints(r) ==
    IF r \in 1..10 THEN <<60, 54, 48, 43, 40, 38, 36, 34, 32, 31>>[r]
    ELSE IF r \in 11..40 THEN 41 - r
    ELSE 0

\* C4: every rank-to-points computation (IBUFullService._calculate_points,
\* DataService._calculate_total_points, IBUDataService._rank_to_points) gives, for
\* every list of integer ranks, the sum of the World-Cup table values
\* (60,54,48,43,40,38,36,34,32,31 for 1..10, 30 down to 1 for 11..40, 0 outside
\* 1..40); the ranks [3,7,12,25,40] total 130.
C4_PointsTable ==
    /\ points.fn # "none" =>
         points.value = SumSeq([i \in 1..Len(ranks) |-> WorldCupPoints(ranks[i])])
    /\ (points.fn # "none" /\ ranks = <<3, 7, 12, 25, 40>>) => points.value = 130

C4_Witness ==
    /\ points.fn = "IBUFullService._calculate_points"
    /\ ranks = <<3, 7, 12, 25, 40>>
    /\ points.value = 130

(***************************************************************************)
(* The external results authority (the biathlonresults client, `br`)       *)
(***************************************************************************)

\* what the authority answers:
\*   "standings"  every call answers, the Women's Total Score cup has rows
\*   "races_only" every call answers, no Women's Total Score cup is listed
\*   "empty"      every call answers with nothing (no cups, no events, no results)
\*   "down"       every call raises (the authority is unreachable)
UpstreamModes == {"standings", "races_only", "empty", "down"}

\* rows of the Women's World Cup Total Score standings, in rank order
StandingsRows ==
    << [IBUId |-> "BTNOR1", Nat |-> "NOR", Rank |-> <<"1">>],
       [IBUId |-> "BTCZE1", Nat |-> "CZE", Rank |-> <<"2">>],
       [IBUId |-> "BTFRA1", Nat |-> "FRA", Rank |-> <<"3">>],
       [IBUId |-> "BTCZE2", Nat |-> "CZE", Rank |-> <<"4">>],
       [IBUId |-> "BTCZE3", Nat |-> "CZE", Rank |-> <<"5">>],
       [IBUId |-> "BTNOR2", Nat |-> "NOR", Rank |-> <<"6">>],
       [IBUId |-> "BTCZE4", Nat |-> "CZE", Rank |-> <<"7">>] >>

\* br.events(season, level): the season's events, oldest first; each event's
\* competitions (br.competitions), in start order
Events ==
    << << [RaceId |-> "R1", Women |-> TRUE], [RaceId |-> "R2", Women |-> FALSE] >>,
       << [RaceId |-> "R3", Women |-> FALSE], [RaceId |-> "R4", Women |-> TRUE] >> >>

\* br.results(race_id)["Results"] of the races the authority knows
RaceResults ==
    [r \in {"R1", "R2", "R3", "R4"} |->
        CASE r = "R1" -> << [IBUId |-> "BTNOR1", Nat |-> "NOR", Rank |-> <<"1">>],
                            [IBUId |-> "BTCZE1", Nat |-> "CZE", Rank |-> <<"2">>],
                            [IBUId |-> "BTCZE2", Nat |-> "CZE", Rank |-> <<"3">>],
                            [IBUId |-> "BTFRA1", Nat |-> "FRA", Rank |-> <<"4">>],
                            [IBUId |-> "BTCZE3", Nat |-> "CZE", Rank |-> <<"5">>],
                            [IBUId |-> "BTCZE4", Nat |-> "CZE", Rank |-> <<"D", "N", "F">>] >>
          [] r = "R4" -> << [IBUId |-> "BTFRA1", Nat |-> "FRA", Rank |-> <<"1">>],
                            [IBUId |-> "BTNOR2", Nat |-> "NOR", Rank |-> <<"2">>],
                            [IBUId |-> "BTNOR1", Nat |-> "NOR", Rank |-> <<"3">>] >>
          [] OTHER    -> << [IBUId |-> "BTMEN1", Nat |-> "NOR", Rank |-> <<"1">>] >>]

\* str.upper() on the nation strings a request can carry
Upper(str) ==
    CASE str = "cze" -> "CZE"
      [] str = "nor" -> "NOR"
      [] OTHER -> str

\* Python truthiness of an Optional[str]: None and "" are falsy
Truthy(str) == str # "None" /\ str # ""

\* list[:n]
Take(s, n) == SubSeq(s, 1, Min2(n, Len(s)))

\* reversed(list)
Reverse(s) == [i \in 1..Len(s) |-> s[Len(s) + 1 - i]]

(***************************************************************************)
(* IBUFullService.get_athletes and GET /athletes                           *)
(***************************************************************************)

\* the largest limit a request carries (the endpoint accepts 1..200)
MaxLimit == 2
\* the number of argument combinations the memo holds before the process restarts
MaxCached == 2
\* functools.lru_cache(maxsize=128)
lru_maxsize == 128

\* the nation query values tried; "None" is the absent parameter
NationParams == {"None", "CZE", "NOR", "cze"}
\* the nation codes proper
NationCodes == {"CZE", "NOR"}

\* the loop over cup_standings["Rows"]: filter by nation, append, stop at limit
RECURSIVE StandingsLoop(_, _, _, _)
StandingsLoop(rows, nation, limit, athletes) ==
    IF rows = <<>> THEN athletes
    ELSE IF Truthy(nation) /\ Head(rows).Nat # Upper(nation)
         THEN StandingsLoop(Tail(rows), nation, limit, athletes)
    ELSE LET appended == Append(athletes,
                            [id |-> Head(rows).IBUId, nation |-> Head(rows).Nat,
                             world_rank |-> Head(rows).Rank, active |-> TRUE])
         IN IF Len(appended) >= limit THEN appended
            ELSE StandingsLoop(Tail(rows), nation, limit, appended)

\* the loop over results["Results"][:limit * 2] of one race
RECURSIVE ResultsLoop(_, _, _, _)
ResultsLoop(results, nation, limit, athletes) ==
    IF results = <<>> THEN athletes
    ELSE IF Truthy(nation) /\ Head(results).Nat # Upper(nation)
         THEN ResultsLoop(Tail(results), nation, limit, athletes)
    ELSE LET appended == Append(athletes,
                            [id |-> Head(results).IBUId, nation |-> Head(results).Nat,
                             world_rank |-> Head(results).Rank, active |-> TRUE])
         IN IF Len(appended) >= limit THEN appended
            ELSE ResultsLoop(Tail(results), nation, limit, appended)

\* the loop over reversed(competitions) of one event: the first Women's
\* competition whose results are there is scanned, then the loop ends
RECURSIVE CompetitionsLoop(_, _, _, _)
CompetitionsLoop(comps, nation, limit, athletes) ==
    IF comps = <<>> THEN athletes
    ELSE IF Head(comps).Women
         THEN ResultsLoop(Take(RaceResults[Head(comps).RaceId], limit * 2),
                          nation, limit, athletes)
    ELSE CompetitionsLoop(Tail(comps), nation, limit, athletes)

\* the loop over reversed(events): it ends once some race gave an athlete
RECURSIVE EventsLoop(_, _, _, _)
EventsLoop(events, nation, limit, athletes) ==
    IF events = <<>> THEN athletes
    ELSE LET after == CompetitionsLoop(Reverse(Head(events)), nation, limit, athletes)
         IN IF after # <<>> THEN after
            ELSE EventsLoop(Tail(events), nation, limit, after)

\* the body of IBUFullService.get_athletes (what the memo wraps)
get_athletes_body(mode, nation, limit) ==
    IF mode = "down" THEN <<>>                \* br.cups raises: except -> []
    ELSE LET rows == IF mode = "standings" THEN StandingsRows ELSE <<>>
             events == IF mode = "empty" THEN <<>> ELSE Events
             fromStandings == StandingsLoop(rows, nation, limit, <<>>)
             athletes == IF fromStandings # <<>> THEN fromStandings
                         ELSE EventsLoop(Reverse(events), nation, limit, <<>>)
         IN Take(athletes, limit)

\* the memo: position of a key in the cache, 0 when absent
CacheIndex(cache, key) ==
    IF \E i \in 1..Len(cache) : cache[i].key = key
    THEN CHOOSE i \in 1..Len(cache) : cache[i].key = key
    ELSE 0

\* sequence s without its i-th element
RemoveAt(s, i) == [j \in 1..(Len(s) - 1) |-> IF j < i THEN s[j] ELSE s[j + 1]]

\* a memo that evicts one entry too early (it holds maxsize - 1 entries)
CacheAfterOneShort(cache, key, value) ==
    LET i == CacheIndex(cache, key)
    IN IF i # 0 THEN Append(RemoveAt(cache, i), cache[i])
       ELSE LET room == IF Len(cache) >= lru_maxsize - 1 THEN Tail(cache) ELSE cache
            IN Append(room, [key |-> key, value |-> value])

\* lru_cache: a hit moves the entry to the most recent end; a miss computes,
\* stores, and evicts the least recent entry when the memo is full
CacheAfter(cache, key, value) ==
    LET i == CacheIndex(cache, key)
    IN IF i # 0 THEN Append(RemoveAt(cache, i), cache[i])
       ELSE LET room == IF Len(cache) >= lru_maxsize THEN Tail(cache) ELSE cache
            IN Append(room, [key |-> key, value |-> value])

\* get_athletes without its memo: every call runs the body
get_athletes_unmemoized(cache, mode, nation, limit) ==
    get_athletes_body(mode, nation, limit)

\* IBUFullService.get_athletes(nation, limit) through its lru_cache
get_athletes(cache, mode, nation, limit) ==
    LET i == CacheIndex(cache, <<nation, limit>>)
    IN IF i # 0 THEN cache[i].value ELSE get_athletes_body(mode, nation, limit)

\* the roster GET /athletes substitutes for an empty CZE answer
BuiltInRoster ==
    << [id |-> "BTCZE12903199501", nation |-> "CZE", active |-> TRUE],
       [id |-> "BTCZE11502200001", nation |-> "CZE", active |-> TRUE],
       [id |-> "BTCZE12811199401", nation |-> "CZE", active |-> TRUE] >>

NoResponse == [endpoint |-> "none", status |-> 0]

\* GET /athletes?nation=&limit= (api/endpoints/athletes.py get_athletes)
GetAthletes(nation, limit) ==
    LET key == <<nation, limit>>
        athletes == get_athletes(athletes_cache, upstream, nation, limit)
        body == IF athletes = <<>> /\ nation = "CZE" THEN BuiltInRoster ELSE athletes
    IN /\ \/ CacheIndex(athletes_cache, key) # 0
          \/ Len(athletes_cache) < MaxCached
       /\ athletes_cache' = CacheAfter(athletes_cache, key, athletes)
       /\ response' = [endpoint |-> "get_athletes", nation |-> nation, limit |-> limit,
                       status |-> 200, body |-> body,
                       substituted |-> (athletes = <<>> /\ nation = "CZE")]
       /\ UNCHANGED <<upstream, athlete_results, notApi>>

ListAthletes == \E nation \in NationParams, limit \in 1..MaxLimit : GetAthletes(nation, limit)

\* the authority changes what it answers
UpstreamChanges ==
    /\ \E mode \in UpstreamModes \ {upstream} : upstream' = mode
    /\ UNCHANGED <<athletes_cache, athlete_results, response, notApi>>

\* the server process restarts: the memo starts empty
RestartProcess ==
    /\ athletes_cache # <<>>
    /\ athletes_cache' = <<>>
    /\ response' = NoResponse
    /\ UNCHANGED <<upstream, athlete_results, notApi>>

ApiIdle ==
    /\ upstream = "standings"
    /\ athletes_cache = <<>>
    /\ athlete_results = <<>>
    /\ response = NoResponse

StartAthletes ==
    /\ upstream \in UpstreamModes
    /\ athletes_cache = <<>>
    /\ athlete_results = <<>>
    /\ response = NoResponse

NextAthletes == ListAthletes \/ UpstreamChanges \/ RestartProcess

\* C3: for every nation code n and limit L, GET /athletes?nation=n&limit=L returns
\* at most L items, each with nation = n, from the standings as well as from the
\* built-in roster substituted for an empty answer.
C3_NationFilterAndLimit ==
    (response.endpoint = "get_athletes" /\ response.nation \in NationCodes) =>
        /\ Len(response.body) <= response.limit
        /\ \A i \in 1..Len(response.body) : response.body[i].nation = response.nation


(***************************************************************************)
(* Strings: a Python str is a sequence of one-character strings            *)
(***************************************************************************)

Digits == {"0", "1", "2", "3", "4", "5", "6", "7", "8", "9"}

DigitValue(c) ==
    CASE c = "0" -> 0 [] c = "1" -> 1 [] c = "2" -> 2 [] c = "3" -> 3 [] c = "4" -> 4
      [] c = "5" -> 5 [] c = "6" -> 6 [] c = "7" -> 7 [] c = "8" -> 8 [] c = "9" -> 9

\* str.isdigit(): non-empty and every character a digit
IsDigit(str) == str # <<>> /\ \A i \in 1..Len(str) : str[i] \in Digits

\* str.replace(c, "")
RECURSIVE RemoveChar(_, _)
RemoveChar(str, c) ==
    IF str = <<>> THEN <<>>
    ELSE IF Head(str) = c THEN RemoveChar(Tail(str), c)
    ELSE <<Head(str)>> \o RemoveChar(Tail(str), c)

\* int(str) of a digit string
RECURSIVE ParseInt(_)
ParseInt(str) ==
    IF str = <<>> THEN 0
    ELSE ParseInt(SubSeq(str, 1, Len(str) - 1)) * 10 + DigitValue(str[Len(str)])

\* sorted(list of integers)
RECURSIVE Sorted(_)
Sorted(s) ==
    IF s = <<>> THEN <<>>
    ELSE LET m == CHOOSE i \in 1..Len(s) : \A j \in 1..Len(s) : s[i] <= s[j]
         IN <<s[m]>> \o Sorted(RemoveAt(s, m))

(***************************************************************************)
(* IBUFullService.get_athlete_performance, get_race_analysis and the       *)
(* endpoints that use them                                                 *)
(***************************************************************************)

\* the longest result history the authority holds for the athlete
MaxResults == 2
\* season_results = [...][:20]
season_cap == 20

\* the athlete the authority knows, and one it has no record of
KnownAthlete == "BTCZE1"
UnknownAthlete == "BTXXX0"
AthleteIds == {KnownAthlete, UnknownAthlete}

\* the race ids requested: R1 and R4 are known to the authority, R0 is not
RaceIds == {"R1", "R4", "R0"}

\* the result records the authority may publish: Rank and Season strings of
\* finished races ("1", "12", "41", "7."), of an unfinished one and of one with no rank
ResultRecords ==
    { [Rank |-> <<"1">>, Season |-> "24/25"],
      [Rank |-> <<"1", "2">>, Season |-> "24/25"],
      [Rank |-> <<"4", "1">>, Season |-> "23/24"],
      [Rank |-> <<"7", ".">>, Season |-> "23/24"],
      [Rank |-> <<"D", "N", "F">>, Season |-> "24/25"],
      [Rank |-> <<>>, Season |-> "23/24"] }

\* a value returned to a caller, or an exception raised to it
Return(v) == [raised |-> FALSE, value |-> v]
Raise(kind, code, detail) == [raised |-> TRUE, kind |-> kind, code |-> code, detail |-> detail]

None == [none |-> TRUE]

\* br.all_results(athlete_id)
br_all_results(mode, athlete_id, results) ==
    IF mode = "down" THEN Raise("ConnectionError", 0, "unreachable")
    ELSE IF mode = "empty" \/ athlete_id # KnownAthlete THEN Return(None)
    ELSE Return([none |-> FALSE, Results |-> results])

\* br.results(race_id)
br_results(mode, race_id) ==
    IF mode = "down" THEN Raise("ConnectionError", 0, "unreachable")
    ELSE IF mode = "empty" \/ race_id \notin DOMAIN RaceResults THEN Return(None)
    ELSE Return([none |-> FALSE, Results |-> RaceResults[race_id]])

\* [r for r in results if r.get("Season") == "24/25"]
RECURSIVE CurrentSeason(_)
CurrentSeason(results) ==
    IF results = <<>> THEN <<>>
    ELSE IF Head(results).Season = "24/25"
         THEN <<Head(results)>> \o CurrentSeason(Tail(results))
    ELSE CurrentSeason(Tail(results))

\* the loop collecting ranks: str(Rank) with "." removed must be a digit string
RECURSIVE ParseRanks(_)
ParseRanks(results) ==
    IF results = <<>> THEN <<>>
    ELSE LET rank_str == Head(results).Rank
         IN IF rank_str # <<>> /\ IsDigit(RemoveChar(rank_str, "."))
            THEN <<ParseInt(RemoveChar(rank_str, "."))>> \o ParseRanks(Tail(results))
            ELSE ParseRanks(Tail(results))

\* the try body of IBUFullService.get_athlete_performance; the float-valued report
\* fields (avg_rank, shooting, consistency_score, recent_form) decide no branch and
\* are not carried
get_athlete_performance_try(mode, athlete_id, results) ==
    LET all_results == br_all_results(mode, athlete_id, results)
    IN IF all_results.raised THEN all_results
       ELSE IF all_results.value.none THEN Return(None)
       ELSE LET current == Take(CurrentSeason(all_results.value.Results), season_cap)
                season_results == IF current = <<>>
                                  THEN Take(all_results.value.Results, season_cap)
                                  ELSE current
                rs == ParseRanks(season_results)
            IN IF rs = <<>> THEN Return(None)
               ELSE Return([none |-> FALSE,
                            athlete_id |-> athlete_id,
                            total_races |-> Len(season_results),
                            races_finished |-> Len(rs),
                            median_rank |-> Sorted(rs)[(Len(rs) \div 2) + 1],
                            best_rank |-> Sorted(rs)[1],
                            worst_rank |-> Sorted(rs)[Len(rs)],
                            points_total |-> _calculate_points(rs)])

\* get_athlete_performance with no except clause: a failure of the call reaches the caller
get_athlete_performance_unguarded(mode, athlete_id, results) ==
    get_athlete_performance_try(mode, athlete_id, results)

\* IBUFullService.get_athlete_performance: except Exception -> return None
get_athlete_performance(mode, athlete_id, results) ==
    LET body == get_athlete_performance_try(mode, athlete_id, results)
    IN IF body.raised THEN Return(None) ELSE body

\* the str(Rank) values that count as a finish
Finishers(results) ==
    {i \in 1..Len(results) : IsDigit(RemoveChar(results[i].Rank, "."))}

\* the czech_athletes list of get_race_analysis
RECURSIVE CzechAthletes(_)
CzechAthletes(results) ==
    IF results = <<>> THEN <<>>
    ELSE IF Head(results).Nat = "CZE"
         THEN <<[ibu_id |-> Head(results).IBUId, rank |-> Head(results).Rank]>>
              \o CzechAthletes(Tail(results))
    ELSE CzechAthletes(Tail(results))

\* IBUFullService.get_race_analysis: {} when the authority has nothing or fails
get_race_analysis(mode, race_id) ==
    LET race_results == br_results(mode, race_id)
    IN IF race_results.raised THEN Return(None)          \* except Exception -> {}
       ELSE IF race_results.value.none THEN Return(None)  \* if not race_results -> {}
       ELSE LET results == race_results.value.Results
            IN Return([none |-> FALSE,
                       race_id |-> race_id,
                       winner |-> IF results = <<>> THEN "None" ELSE results[1].IBUId,
                       czech_athletes |-> CzechAthletes(results),
                       total_finishers |-> Cardinality(Finishers(results)),
                       dnf_count |-> Cardinality({i \in 1..Len(results) :
                                                    results[i].Rank = <<"D", "N", "F">>}),
                       dns_count |-> Cardinality({i \in 1..Len(results) :
                                                    results[i].Rank = <<"D", "N", "S">>})])

\* what FastAPI answers for the outcome of a path operation: the returned body
\* with 200, an HTTPException with its status code, any other exception with 500
Answer(endpoint, request, outcome) ==
    IF ~outcome.raised
    THEN [endpoint |-> endpoint, request |-> request, status |-> 200, body |-> outcome.value]
    ELSE IF outcome.kind = "HTTPException"
    THEN [endpoint |-> endpoint, request |-> request, status |-> outcome.code,
          body |-> [none |-> FALSE, detail |-> outcome.detail]]
    ELSE [endpoint |-> endpoint, request |-> request, status |-> 500,
          body |-> [none |-> FALSE, detail |-> "Internal Server Error"]]

\* try: ... except Exception as e: raise HTTPException(status_code=500, detail=str(e))
\* (HTTPException is itself a subclass of Exception)
ExceptExceptionRaise500(outcome) ==
    IF outcome.raised THEN Raise("HTTPException", 500, outcome.detail) ELSE outcome

\* the minimal data structure GET /athletes/{id}/performance returns for no performance
DefaultPerformance(athlete_id) ==
    [none |-> FALSE, athlete_id |-> athlete_id, message |-> "Limited data available",
     total_races |-> 0, avg_rank |-> 0, median_rank |-> 0, best_rank |-> 0,
     worst_rank |-> 0, avg_ski_time |-> 0, consistency_score |-> 50,
     recent_form |-> 0, points_total |-> 0]

\* GET /athletes/{athlete_id}/performance (api/endpoints/athletes.py get_performance)
GetPerformance(athlete_id) ==
    LET performance == get_athlete_performance(upstream, athlete_id, athlete_results)
        outcome == IF performance.raised THEN performance
                   ELSE IF performance.value.none THEN Return(DefaultPerformance(athlete_id))
                   ELSE performance
    IN /\ response' = Answer("get_performance",
                             [athlete_id |-> athlete_id, upstream |-> upstream,
                              no_results |-> athlete_results = <<>>,
                              service_raised |-> performance.raised,
                              service_none |-> ~performance.raised /\ performance.value.none],
                             outcome)
       /\ UNCHANGED <<upstream, athletes_cache, athlete_results, notApi>>

\* GET /races/{race_id}/analysis (api/endpoints/races.py get_race_analysis)
GetRaceAnalysis(race_id) ==
    LET analysis == get_race_analysis(upstream, race_id)
        tryBody == IF analysis.raised THEN analysis
                   ELSE IF analysis.value.none
                   THEN Raise("HTTPException", 404, "404: Race not found")
                   ELSE analysis
    IN /\ response' = Answer("get_race_analysis",
                             [race_id |-> race_id, upstream |-> upstream,
                              has_data |-> ~analysis.value.none],
                             ExceptExceptionRaise500(tryBody))
       /\ UNCHANGED <<upstream, athletes_cache, athlete_results, notApi>>

\* GET /races/{race_id}/czechs (api/endpoints/races.py get_czech_performance);
\* best_czech is min(..., key=rank) over the rank strings
GetCzechPerformance(race_id) ==
    LET analysis == get_race_analysis(upstream, race_id)
        tryBody == IF analysis.raised THEN analysis
                   ELSE IF analysis.value.none
                   THEN Raise("HTTPException", 404, "404: Race not found")
                   ELSE Return([none |-> FALSE, race_id |-> race_id,
                                czech_athletes |-> analysis.value.czech_athletes])
    IN /\ response' = Answer("get_czech_performance",
                             [race_id |-> race_id, upstream |-> upstream,
                              has_data |-> ~analysis.value.none],
                             ExceptExceptionRaise500(tryBody))
       /\ UNCHANGED <<upstream, athletes_cache, athlete_results, notApi>>

\* GET /analytics/comparison?athlete1=&athlete2= (api/endpoints/analytics.py
\* compare_athletes); the advantages lists, built from float fields, are not carried
CompareAthletes(athlete1, athlete2) ==
    LET perf1 == get_athlete_performance(upstream, athlete1, athlete_results)
        perf2 == get_athlete_performance(upstream, athlete2, athlete_results)
        tryBody == IF perf1.raised THEN perf1
                   ELSE IF perf2.raised THEN perf2
                   ELSE IF perf1.value.none \/ perf2.value.none
                   THEN Raise("HTTPException", 404, "404: One or both athletes not found")
                   ELSE Return([none |-> FALSE, athlete1 |-> perf1.value,
                                athlete2 |-> perf2.value])
    IN /\ response' = Answer("compare_athletes",
                             [athlete1 |-> athlete1, athlete2 |-> athlete2,
                              upstream |-> upstream,
                              has_data |-> ~(perf1.raised \/ perf2.raised)
                                          /\ ~perf1.value.none /\ ~perf2.value.none],
                             ExceptExceptionRaise500(tryBody))
       /\ UNCHANGED <<upstream, athletes_cache, athlete_results, notApi>>

Performance == \E a \in AthleteIds : GetPerformance(a)
RaceAnalysis == \E r \in RaceIds : GetRaceAnalysis(r)
CzechPerformance == \E r \in RaceIds : GetCzechPerformance(r)
Comparison == \E a1 \in AthleteIds, a2 \in AthleteIds : CompareAthletes(a1, a2)

\* the authority publishes one more result of the athlete (most recent first)
PublishResult ==
    /\ Len(athlete_results) < MaxResults
    /\ \E r \in ResultRecords : athlete_results' = <<r>> \o athlete_results
    /\ UNCHANGED <<upstream, athletes_cache, response, notApi>>

StartApi ==
    /\ upstream \in UpstreamModes
    /\ athletes_cache = <<>>
    /\ athlete_results = <<>>
    /\ response = NoResponse

NextApi ==
    \/ Performance
    \/ RaceAnalysis
    \/ CzechPerformance
    \/ Comparison
    \/ PublishResult
    \/ UpstreamChanges

\* C1: when the authority is unreachable or has no results for the athlete,
\* get_athlete_performance returns None without raising and
\* GET /athletes/{id}/performance answers its fixed default payload
\* (total_races 0, consistency_score 50.0, recent_form 0.0, points_total 0),
\* never a 5xx.
C1_PerformanceFailSoft ==
    (/\ response.endpoint = "get_performance"
     /\ \/ response.request.upstream \in {"down", "empty"}
        \/ response.request.athlete_id = UnknownAthlete
        \/ response.request.no_results) =>
        /\ ~response.request.service_raised
        /\ response.request.service_none
        /\ response.status = 200
        /\ response.body = DefaultPerformance(response.request.athlete_id)
        /\ response.body.total_races = 0
        /\ response.body.consistency_score = 50
        /\ response.body.recent_form = 0
        /\ response.body.points_total = 0

C1_Witness ==
    /\ response.endpoint = "get_performance"
    /\ response.request.upstream = "down"
    /\ response.request.athlete_id = KnownAthlete
    /\ ~response.request.no_results
    /\ response.status = 200
    /\ response.body.points_total = 0

\* C2: a request naming a race or athlete the adapter has no data for is answered
\* 404, never 5xx: GET /races/{id}/analysis, GET /races/{id}/czechs,
\* GET /analytics/comparison.
C2_UnknownIs404 ==
    (/\ response.endpoint \in {"get_race_analysis", "get_czech_performance",
                               "compare_athletes"}
     /\ ~response.request.has_data) =>
        response.status = 404

(***************************************************************************)
(* core/database.py get_db and POST /api/v1/athletes (create_athlete)      *)
(***************************************************************************)

\* the number of requests in flight
MaxRequests == 2
RequestIds == 1..MaxRequests

Emails == {"a@example.org", "b@example.org"}

\* a request that has not arrived
NoRequest ==
    [pc |-> "new", email |-> "none", handler |-> "none", fault |-> FALSE,
     commit_raised |-> FALSE, ops |-> <<>>, pending |-> <<>>, exc |-> "none",
     status |-> 0]

\* get_db after `yield session`: the handler returned -> commit; an Exception was
\* thrown in -> the except clause (rollback); anything else (a BaseException such as
\* asyncio.CancelledError) -> only the finally clause
get_db_after_yield_no_rollback(handler) ==
    IF handler = "returned" THEN "commit" ELSE "close"
get_db_after_yield(handler) ==
    CASE handler = "returned" -> "commit"
      [] handler \in {"HTTPException", "Exception"} -> "rollback"
      [] OTHER -> "close"

\* get_db after `await session.commit()`: a failed commit is an Exception raised
\* inside the try block
get_db_after_commit(raised) == IF raised THEN "rollback" ELSE "close"

\* Athlete.email = Column(String(255), unique=True): the rows a transaction
\* inserts are refused when one of their emails is already in the table
UniqueViolation(table, pending) ==
    \/ \E i \in 1..Len(pending) : \E j \in 1..Len(table) : table[j].email = pending[i]
    \/ \E i, j \in 1..Len(pending) : i # j /\ pending[i] = pending[j]

\* the table after a transaction's inserts are committed
RECURSIVE Inserted(_, _)
Inserted(table, pending) ==
    IF pending = <<>> THEN table
    ELSE Inserted(Append(table, [id |-> Len(table) + 1, email |-> Head(pending)]),
                  Tail(pending))

\* AthleteService.get_by_email: SELECT ... WHERE email = :email (committed rows)
get_by_email(table, email) == \E j \in 1..Len(table) : table[j].email = email

\* AthleteService.create: the new Athlete is added to the session; its INSERT
\* reaches the database with the transaction (the session has autoflush=False)
create(pending, email) == Append(pending, email)

\* the request arrives; Depends(get_db) opens a session and yields it to the handler
SessionAcquire(r, email) ==
    /\ requests[r].pc = "new"
    /\ requests' = [requests EXCEPT ![r] = [@ EXCEPT !.pc = "get_by_email",
                                                     !.email = email,
                                                     !.handler = "running"]]
    /\ UNCHANGED <<athletes_table, exit_before_response, notDb>>

\* create_athlete: existing = await service.get_by_email(...); if existing: raise 400
CheckEmail(r) ==
    /\ requests[r].pc = "get_by_email"
    /\ IF get_by_email(athletes_table, requests[r].email)
       THEN requests' = [requests EXCEPT ![r] =
                [@ EXCEPT !.handler = "HTTPException",
                          !.exc = "HTTPException",
                          !.pc = get_db_after_yield("HTTPException")]]
       ELSE requests' = [requests EXCEPT ![r] = [@ EXCEPT !.pc = "create"]]
    /\ UNCHANGED <<athletes_table, exit_before_response, notDb>>

\* create_athlete: athlete = await service.create(athlete_data); return athlete
CreateAthlete(r) ==
    /\ requests[r].pc = "create"
    /\ requests' = [requests EXCEPT ![r] =
            [@ EXCEPT !.pending = create(@, requests[r].email),
                      !.handler = "returned",
                      !.pc = get_db_after_yield("returned")]]
    /\ UNCHANGED <<athletes_table, exit_before_response, notDb>>

\* the handler fails while it awaits the store: with an Exception (the connection
\* is lost) or with a BaseException that is no Exception (the task is cancelled)
HandlerFails(r, kind) ==
    /\ requests[r].pc \in {"get_by_email", "create"}
    /\ requests' = [requests EXCEPT ![r] =
            [@ EXCEPT !.handler = kind, !.exc = kind, !.fault = TRUE,
                      !.pc = get_db_after_yield(kind)]]
    /\ UNCHANGED <<athletes_table, exit_before_response, notDb>>

\* get_db: await session.commit(); the unique index refuses a duplicate email
Commit(r) ==
    /\ requests[r].pc = "commit"
    /\ IF UniqueViolation(athletes_table, requests[r].pending)
       THEN /\ requests' = [requests EXCEPT ![r] =
                    [@ EXCEPT !.ops = Append(@, "commit"),
                              !.commit_raised = TRUE,
                              !.exc = "IntegrityError",
                              !.pc = get_db_after_commit(TRUE)]]
            /\ UNCHANGED athletes_table
       ELSE /\ requests' = [requests EXCEPT ![r] =
                    [@ EXCEPT !.ops = Append(@, "commit"),
                              !.pending = <<>>,
                              !.pc = get_db_after_commit(FALSE)]]
            /\ athletes_table' = Inserted(athletes_table, requests[r].pending)
    /\ UNCHANGED <<exit_before_response, notDb>>

\* get_db: await session.commit() fails for a reason of the store's own
CommitFails(r) ==
    /\ requests[r].pc = "commit"
    /\ requests' = [requests EXCEPT ![r] =
            [@ EXCEPT !.ops = Append(@, "commit"),
                      !.commit_raised = TRUE,
                      !.fault = TRUE,
                      !.exc = "OperationalError",
                      !.pc = get_db_after_commit(TRUE)]]
    /\ UNCHANGED <<athletes_table, exit_before_response, notDb>>

\* get_db: except Exception: await session.rollback(); raise
Rollback(r) ==
    /\ requests[r].pc = "rollback"
    /\ requests' = [requests EXCEPT ![r] =
            [@ EXCEPT !.ops = Append(@, "rollback"),
                      !.pending = <<>>,
                      !.pc = "close"]]
    /\ UNCHANGED <<athletes_table, exit_before_response, notDb>>

\* get_db: finally: await session.close()
Close(r) ==
    /\ requests[r].pc = "close"
    /\ requests' = [requests EXCEPT ![r] =
            [@ EXCEPT !.ops = Append(@, "close"), !.pc = "aexit"]]
    /\ UNCHANGED <<athletes_table, exit_before_response, notDb>>

\* get_db: leaving `async with AsyncSessionLocal() as session` closes the session
ContextExit(r) ==
    /\ requests[r].pc = "aexit"
    /\ requests' = [requests EXCEPT ![r] =
            [@ EXCEPT !.ops = Append(@, "close"), !.pc = "respond"]]
    /\ UNCHANGED <<athletes_table, exit_before_response, notDb>>

\* the status the client sees: 201 for a returned athlete, the HTTPException's 400,
\* 500 for any other exception that reaches the framework (an exception of the
\* dependency's exit code reaches it only when that code runs before the response
\* is sent); 499 stands for a cancelled request, which is answered nothing
StatusOf(req, exitFirst) ==
    CASE req.handler = "HTTPException" -> 400
      [] req.handler = "Exception" -> 500
      [] req.handler = "BaseException" -> 499
      [] OTHER -> IF req.exc # "none" /\ exitFirst THEN 500 ELSE 201

Respond(r) ==
    /\ requests[r].pc = "respond"
    /\ requests' = [requests EXCEPT ![r] =
            [@ EXCEPT !.status = StatusOf(requests[r], exit_before_response),
                      !.pc = "done"]]
    /\ UNCHANGED <<athletes_table, exit_before_response, notDb>>

Arrive == \E r \in RequestIds, email \in Emails : SessionAcquire(r, email)
Check == \E r \in RequestIds : CheckEmail(r)
Create == \E r \in RequestIds : CreateAthlete(r)
Fail == \E r \in RequestIds, kind \in {"Exception", "BaseException"} : HandlerFails(r, kind)
CommitStep == \E r \in RequestIds : Commit(r)
CommitFailure == \E r \in RequestIds : CommitFails(r)
RollbackStep == \E r \in RequestIds : Rollback(r)
CloseStep == \E r \in RequestIds : Close(r)
ContextExitStep == \E r \in RequestIds : ContextExit(r)
RespondStep == \E r \in RequestIds : Respond(r)

DbIdle ==
    /\ athletes_table = <<>>
    /\ requests = [r \in RequestIds |-> NoRequest]
    /\ exit_before_response = TRUE

StartDb ==
    /\ athletes_table = <<>>
    /\ requests = [r \in RequestIds |-> NoRequest]
    /\ exit_before_response \in BOOLEAN

NextDb ==
    \/ Arrive
    \/ Check
    \/ Create
    \/ Fail
    \/ CommitStep
    \/ CommitFailure
    \/ RollbackStep
    \/ CloseStep
    \/ ContextExitStep
    \/ RespondStep

Count(ops, op) == Cardinality({i \in 1..Len(ops) : ops[i] = op})

\* C5 as stated: for every request that acquired a session through get_db: if the
\* handler finished without raising, commit was called exactly once and rollback
\* never; if the handler or the commit raised, rollback was called and the exception
\* propagated; in both cases close was called and is the last operation on the session.
C5_SessionLifecycle ==
    \A r \in RequestIds : requests[r].pc \in {"respond", "done"} =>
        /\ requests[r].handler = "returned" =>
              /\ Count(requests[r].ops, "commit") = 1
              /\ Count(requests[r].ops, "rollback") = 0
        /\ (requests[r].handler # "returned" \/ requests[r].commit_raised) =>
              /\ Count(requests[r].ops, "rollback") >= 1
              /\ requests[r].exc # "none"
        /\ Count(requests[r].ops, "close") >= 1
        /\ requests[r].ops[Len(requests[r].ops)] = "close"

\* C5 amended: if the handler finished without raising, commit was called exactly
\* once, and rollback was called (once) only if that commit raised; if the handler
\* or the commit raised an Exception, rollback was called once and the exception
\* propagated; if the handler was ended by a BaseException that is no Exception
\* (a cancellation), neither commit nor rollback was called and the exception
\* propagated; in every case close was called and is the last operation on the session.
C5_SessionLifecycleAmended ==
    \A r \in RequestIds : requests[r].pc \in {"respond", "done"} =>
        /\ requests[r].handler = "returned" =>
              /\ Count(requests[r].ops, "commit") = 1
              /\ Count(requests[r].ops, "rollback")
                    = (IF requests[r].commit_raised THEN 1 ELSE 0)
              /\ requests[r].commit_raised <=> requests[r].exc # "none"
        /\ (requests[r].handler \in {"HTTPException", "Exception"}
            \/ requests[r].commit_raised) =>
              /\ Count(requests[r].ops, "rollback") = 1
              /\ requests[r].exc # "none"
        /\ requests[r].handler = "BaseException" =>
              /\ Count(requests[r].ops, "commit") = 0
              /\ Count(requests[r].ops, "rollback") = 0
              /\ requests[r].exc # "none"
        /\ requests[r].handler # "returned" => Count(requests[r].ops, "commit") = 0
        /\ Count(requests[r].ops, "close") >= 1
        /\ requests[r].ops[Len(requests[r].ops)] = "close"

\* a request whose handler raised an Exception, rolled back and closed, beside one
\* that committed and closed
C5_Witness ==
    \E r1, r2 \in RequestIds :
        /\ requests[r1].pc = "done" /\ requests[r1].handler = "Exception"
        /\ requests[r1].ops = <<"rollback", "close", "close">>
        /\ requests[r2].pc = "done" /\ requests[r2].handler = "returned"
        /\ requests[r2].ops = <<"commit", "close", "close">>

\* C6: of two concurrent creation requests with the same email, in any
\* interleaving, exactly one is answered 201 and the other 400, neither a 5xx, and
\* at most one athlete with that email exists afterwards (no store fault and no
\* cancellation is involved, and no third request carries that email).
C6_DuplicateEmailRace ==
    \A r1, r2 \in RequestIds :
        (/\ r1 # r2
         /\ requests[r1].pc = "done" /\ requests[r2].pc = "done"
         /\ requests[r1].email = requests[r2].email
         /\ ~requests[r1].fault /\ ~requests[r2].fault
         /\ \A r3 \in RequestIds \ {r1, r2} : requests[r3].email # requests[r1].email) =>
            /\ {requests[r1].status, requests[r2].status} = {201, 400}
            /\ requests[r1].status < 500 /\ requests[r2].status < 500
            /\ Cardinality({j \in 1..Len(athletes_table) :
                              athletes_table[j].email = requests[r1].email}) <= 1

(***************************************************************************)
(* services/fatigue_analysis.py FatigueResistanceEngine                    *)
(*                                                                         *)
(* Floats are carried in thousandths (Scale), divisions round down; a      *)
(* float that can be NaN is a record [nan, v].                             *)
(***************************************************************************)

Scale == 1000

Num(v) == [nan |-> FALSE, v |-> v]
NaN == [nan |-> TRUE, v |-> 0]

\* Python's max(a, b) and min(a, b): the first argument stays unless the second
\* compares greater (smaller); every comparison with NaN is False
PyGt(a, b) == ~a.nan /\ ~b.nan /\ a.v > b.v
PyGe(a, b) == ~a.nan /\ ~b.nan /\ a.v >= b.v
PyMax(a, b) == IF PyGt(b, a) THEN b ELSE a
PyMin(a, b) == IF PyGt(a, b) THEN b ELSE a

\* np.mean of a non-empty list
Mean(s) == SumSeq(s) \div Len(s)

\* floor of the square root
RECURSIVE IsqrtBetween(_, _, _)
IsqrtBetween(n, lo, hi) ==
    IF lo >= hi THEN lo
    ELSE LET mid == (lo + hi + 1) \div 2
         IN IF mid * mid <= n THEN IsqrtBetween(n, mid, hi)
            ELSE IsqrtBetween(n, lo, mid - 1)
Isqrt(n) == IsqrtBetween(n, 0, 46340)

Abs(v) == IF v < 0 THEN 0 - v ELSE v

\* the longest race history handed to the engine
MaxBouts == 5

FatigueAthletes == {"BTCZE1"}

\* the bouts a race history is made of: a fresh one shot in a calm situation whose
\* heart rate rose on the range, a fatigued one under pressure, the engine's default
\* bout, one with no recovery time and more hits than shots, one with no shot at all
BoutKinds ==
    { [position |-> "prone", sequence |-> 1, arrival_hr |-> 100, shooting_hr |-> 200,
       hr_recovery_time |-> 30, hits |-> 0, total_shots |-> 1, shooting_time |-> 10,
       pressure_situation |-> "pack"],
      [position |-> "standing", sequence |-> 4, arrival_hr |-> 200, shooting_hr |-> 100,
       hr_recovery_time |-> 10, hits |-> 5, total_shots |-> 5, shooting_time |-> 60,
       pressure_situation |-> "leading"],
      [position |-> "prone", sequence |-> 1, arrival_hr |-> 170, shooting_hr |-> 130,
       hr_recovery_time |-> 30, hits |-> 4, total_shots |-> 5, shooting_time |-> 30,
       pressure_situation |-> "pack"],
      [position |-> "standing", sequence |-> 2, arrival_hr |-> 150, shooting_hr |-> 150,
       hr_recovery_time |-> 0, hits |-> 5, total_shots |-> 1, shooting_time |-> 20,
       pressure_situation |-> "pack"],
      [position |-> "prone", sequence |-> 3, arrival_hr |-> 160, shooting_hr |-> 120,
       hr_recovery_time |-> 60, hits |-> 0, total_shots |-> 0, shooting_time |-> 25,
       pressure_situation |-> "chasing"] }

ZeroDivisionError == Raise("ZeroDivisionError", 0, "division by zero")

\* bout.arrival_hr / 190
hr_percent(bout) == (bout.arrival_hr * Scale) \div 190

\* bout.hits / bout.total_shots
accuracy(bout) ==
    IF bout.total_shots = 0 THEN ZeroDivisionError
    ELSE Return((bout.hits * Scale) \div bout.total_shots)

\* scipy.stats.pearsonr: NaN for a constant input, else the coefficient clipped
\* to [-1, 1]
pearsonr(x, y) ==
    LET n == Len(x)
        mx == Mean(x)
        my == Mean(y)
        Sxy == SumSeq([i \in 1..n |-> (x[i] - mx) * (y[i] - my)])
        Sxx == SumSeq([i \in 1..n |-> (x[i] - mx) * (x[i] - mx)])
        Syy == SumSeq([i \in 1..n |-> (y[i] - my) * (y[i] - my)])
    IN IF Sxx = 0 \/ Syy = 0 THEN NaN
       ELSE LET r == (((Sxy * 10) \div Isqrt(Sxx)) * 100) \div Isqrt(Syy)
            IN Num(Max2(0 - Scale, Min2(Scale, r)))

\* the loop of _analyze_hr_accuracy_relationship
RECURSIVE HrAccuracyLoop(_, _, _)
HrAccuracyLoop(bouts, hr_values, accuracy_values) ==
    IF bouts = <<>> THEN Return([hr_values |-> hr_values, accuracy_values |-> accuracy_values])
    ELSE LET acc == accuracy(Head(bouts))
         IN IF acc.raised THEN acc
            ELSE HrAccuracyLoop(Tail(bouts), Append(hr_values, hr_percent(Head(bouts))),
                                Append(accuracy_values, acc.value))

_analyze_hr_accuracy_relationship(bouts) ==
    IF Len(bouts) < 5 THEN Return(Num(0))
    ELSE LET lists == HrAccuracyLoop(bouts, <<>>, <<>>)
         IN IF lists.raised THEN lists
            ELSE IF Len(lists.value.hr_values) > 1
                 THEN Return(pearsonr(lists.value.hr_values, lists.value.accuracy_values))
                 ELSE Return(Num(0))

\* the loop of _calculate_fatigue_time_penalty: hr_percent < 0.80 is fresh,
\* hr_percent > 0.88 is fatigued (arrival_hr < 152, arrival_hr > 167.2)
RECURSIVE TimePenaltyLoop(_, _, _)
TimePenaltyLoop(bouts, fresh_times, fatigued_times) ==
    IF bouts = <<>> THEN Return([fresh_times |-> fresh_times, fatigued_times |-> fatigued_times])
    ELSE LET bout == Head(bouts)
         IN IF bout.total_shots = 0 THEN ZeroDivisionError
            ELSE LET time_per_shot == (bout.shooting_time * Scale) \div bout.total_shots
                 IN IF bout.arrival_hr * 100 < 80 * 190
                    THEN TimePenaltyLoop(Tail(bouts), Append(fresh_times, time_per_shot),
                                         fatigued_times)
                    ELSE IF bout.arrival_hr * 100 > 88 * 190
                    THEN TimePenaltyLoop(Tail(bouts), fresh_times,
                                         Append(fatigued_times, time_per_shot))
                    ELSE TimePenaltyLoop(Tail(bouts), fresh_times, fatigued_times)

_calculate_fatigue_time_penalty(bouts) ==
    LET lists == TimePenaltyLoop(bouts, <<>>, <<>>)
    IN IF lists.raised THEN lists
       ELSE IF lists.value.fresh_times # <<>> /\ lists.value.fatigued_times # <<>>
            THEN Return(Mean(lists.value.fatigued_times) - Mean(lists.value.fresh_times))
            ELSE Return(0)

\* the loop of _analyze_recovery_patterns: rate = hr_drop / hr_recovery_time * 60
RECURSIVE RecoveryLoop(_, _)
RecoveryLoop(bouts, recovery_rates) ==
    IF bouts = <<>> THEN recovery_rates
    ELSE LET bout == Head(bouts)
         IN IF bout.hr_recovery_time > 0
            THEN RecoveryLoop(Tail(bouts),
                    Append(recovery_rates,
                           (((bout.arrival_hr - bout.shooting_hr) * Scale)
                                \div bout.hr_recovery_time) * 60))
            ELSE RecoveryLoop(Tail(bouts), recovery_rates)

_analyze_recovery_patterns(bouts) ==
    LET recovery_rates == RecoveryLoop(bouts, <<>>)
    IN IF recovery_rates # <<>>
       THEN Min2(100 * Scale, (Mean(recovery_rates) \div 50) * 100)
       ELSE 50 * Scale

is_pressure(bout) ==
    \/ bout.sequence >= 3
    \/ bout.pressure_situation \in {"leading", "chasing"}
    \/ bout.position = "standing"

\* the loop of _evaluate_pressure_performance
RECURSIVE PressureLoop(_, _, _)
PressureLoop(bouts, pressure_performances, normal_performances) ==
    IF bouts = <<>>
    THEN Return([pressure_performances |-> pressure_performances,
                 normal_performances |-> normal_performances])
    ELSE LET acc == accuracy(Head(bouts))
         IN IF acc.raised THEN acc
            ELSE IF is_pressure(Head(bouts))
                 THEN PressureLoop(Tail(bouts), Append(pressure_performances, acc.value),
                                   normal_performances)
                 ELSE PressureLoop(Tail(bouts), pressure_performances,
                                   Append(normal_performances, acc.value))

_evaluate_pressure_performance(bouts) ==
    LET lists == PressureLoop(bouts, <<>>, <<>>)
    IN IF lists.raised THEN lists
       ELSE IF lists.value.pressure_performances # <<>> /\ lists.value.normal_performances # <<>>
            THEN LET avg_pressure == Mean(lists.value.pressure_performances)
                     avg_normal == Mean(lists.value.normal_performances)
                     ratio == IF avg_normal > 0 THEN (avg_pressure * Scale) \div avg_normal
                              ELSE Scale
                 IN Return(Min2(100 * Scale, ratio * 100))
            ELSE Return(75 * Scale)

\* _find_optimal_hr_zones: the 5-BPM zones in the order the dict receives them
RECURSIVE ZoneKeys(_, _)
ZoneKeys(bouts, keys) ==
    IF bouts = <<>> THEN keys
    ELSE LET zone == (Head(bouts).shooting_hr \div 5) * 5
         IN IF \E i \in 1..Len(keys) : keys[i] = zone
            THEN ZoneKeys(Tail(bouts), keys)
            ELSE ZoneKeys(Tail(bouts), Append(keys, zone))

ZoneStats(bouts, zone) ==
    LET members == {i \in 1..Len(bouts) : (bouts[i].shooting_hr \div 5) * 5 = zone}
    IN [hits |-> SumSeq([i \in 1..Len(bouts) |->
                            IF i \in members THEN bouts[i].hits ELSE 0]),
        total |-> SumSeq([i \in 1..Len(bouts) |->
                            IF i \in members THEN bouts[i].total_shots ELSE 0])]

RECURSIVE BestZoneLoop(_, _, _, _)
BestZoneLoop(bouts, keys, best_shooting_hr, best_accuracy) ==
    IF keys = <<>> THEN best_shooting_hr
    ELSE LET stats == ZoneStats(bouts, Head(keys))
         IN IF stats.total >= 10 /\ (stats.hits * Scale) \div stats.total > best_accuracy
            THEN BestZoneLoop(bouts, Tail(keys), Head(keys),
                              (stats.hits * Scale) \div stats.total)
            ELSE BestZoneLoop(bouts, Tail(keys), best_shooting_hr, best_accuracy)

_find_optimal_hr_zones(bouts) ==
    <<BestZoneLoop(bouts, ZoneKeys(bouts, <<>>), 130, 0), 170>>

\* _calculate_resistance_score without its final clamp
_calculate_resistance_score_unclamped(hr_correlation, time_penalty, recovery_efficiency, pressure_response) ==
    LET time_score == PyMax(Num(0), Num(100 * Scale - time_penalty * 20))
    IN IF hr_correlation.nan THEN NaN
       ELSE Num(((Scale - Abs(hr_correlation.v)) * 100 * 25
                 + time_score.v * 25
                 + recovery_efficiency * 30
                 + pressure_response * 20) \div 100)
\* _calculate_resistance_score: weights 0.25 / 0.25 / 0.30 / 0.20, then
\* min(100, max(0, score))
_calculate_resistance_score(hr_correlation, time_penalty, recovery_efficiency, pressure_response) ==
    LET correlation_score ==
            IF hr_correlation.nan THEN NaN
            ELSE Num((Scale - Abs(hr_correlation.v)) * 100)
        time_score == PyMax(Num(0), Num(100 * Scale - time_penalty * 20))
        score == IF correlation_score.nan THEN NaN
                 ELSE Num((correlation_score.v * 25
                           + time_score.v * 25
                           + recovery_efficiency * 30
                           + pressure_response * 20) \div 100)
    IN PyMin(Num(100 * Scale), PyMax(Num(0), score))

\* the loop of _calculate_position_resistance: hr_percent < 0.85 is fresh
RECURSIVE PositionLoop(_, _, _, _)
PositionLoop(bouts, position, fresh_accuracy, fatigued_accuracy) ==
    IF bouts = <<>>
    THEN Return([fresh_accuracy |-> fresh_accuracy, fatigued_accuracy |-> fatigued_accuracy])
    ELSE IF Head(bouts).position # position
    THEN PositionLoop(Tail(bouts), position, fresh_accuracy, fatigued_accuracy)
    ELSE LET acc == accuracy(Head(bouts))
         IN IF acc.raised THEN acc
            ELSE IF Head(bouts).arrival_hr * 100 < 85 * 190
                 THEN PositionLoop(Tail(bouts), position, Append(fresh_accuracy, acc.value),
                                   fatigued_accuracy)
                 ELSE PositionLoop(Tail(bouts), position, fresh_accuracy,
                                   Append(fatigued_accuracy, acc.value))

_calculate_position_resistance(bouts, position) ==
    IF \A i \in 1..Len(bouts) : bouts[i].position # position THEN Return(50 * Scale)
    ELSE LET lists == PositionLoop(bouts, position, <<>>, <<>>)
         IN IF lists.raised THEN lists
            ELSE IF /\ lists.value.fresh_accuracy # <<>>
                    /\ lists.value.fatigued_accuracy # <<>>
                    /\ Mean(lists.value.fresh_accuracy) > 0
                 THEN Return(Min2(100 * Scale,
                                  ((Mean(lists.value.fatigued_accuracy) * Scale)
                                      \div Mean(lists.value.fresh_accuracy)) * 100))
                 ELSE Return(75 * Scale)

\* _calculate_period_resistance: accuracy over the bouts with arrival_hr > 160
_calculate_period_resistance(bouts) ==
    LET high == [i \in 1..Len(bouts) |-> bouts[i].arrival_hr > 160]
        hits == SumSeq([i \in 1..Len(bouts) |-> IF high[i] THEN bouts[i].hits ELSE 0])
        total == SumSeq([i \in 1..Len(bouts) |-> IF high[i] THEN bouts[i].total_shots ELSE 0])
    IN IF bouts = <<>> THEN 50 * Scale
       ELSE IF (\E i \in 1..Len(bouts) : high[i]) /\ total > 0
            THEN ((hits * Scale) \div total) * 100
            ELSE 50 * Scale

\* _analyze_historical_trends; the bouts of one history carry the same date, so
\* months = 0 and the monthly rate is 0
_analyze_historical_trends(bouts) ==
    IF Len(bouts) < 20 THEN Return([trend |-> "insufficient_data", rate |-> 0])
    ELSE LET midpoint == Len(bouts) \div 2
             first_half == SubSeq(bouts, 1, midpoint)
             second_half == SubSeq(bouts, midpoint + 1, Len(bouts))
             first_total == SumSeq([i \in 1..Len(first_half) |-> first_half[i].total_shots])
             second_total == SumSeq([i \in 1..Len(second_half) |-> second_half[i].total_shots])
             first_resistance == _calculate_period_resistance(first_half)
             second_resistance == _calculate_period_resistance(second_half)
             improvement == IF first_resistance > 0
                            THEN (((second_resistance - first_resistance) * Scale)
                                     \div first_resistance) * 100
                            ELSE 0
         IN IF first_total = 0 \/ second_total = 0 THEN ZeroDivisionError
            ELSE Return([trend |-> IF improvement > 5 * Scale THEN "improving"
                                   ELSE IF improvement < (0 - 5) * Scale THEN "declining"
                                   ELSE "stable",
                         rate |-> 0])

\* _compare_with_world: the first benchmark the score reaches
_compare_with_world(resistance_score) ==
    CASE PyGe(resistance_score, Num(95 * Scale)) -> 99
      [] PyGe(resistance_score, Num(90 * Scale)) -> 95
      [] PyGe(resistance_score, Num(85 * Scale)) -> 90
      [] PyGe(resistance_score, Num(80 * Scale)) -> 85
      [] PyGe(resistance_score, Num(75 * Scale)) -> 80
      [] PyGe(resistance_score, Num(70 * Scale)) -> 75
      [] PyGe(resistance_score, Num(65 * Scale)) -> 70
      [] OTHER -> 50

\* _get_czech_team_rank: the score is stored in the peer map, then its 1-based
\* position in the descending list of the map's scores is returned
StoreScore(team, athlete_id, resistance_score) ==
    [a \in DOMAIN team \cup {athlete_id} |->
        IF a = athlete_id THEN resistance_score ELSE team[a]]

\* list(self.czech_team_data.values())
RECURSIVE dict_values(_)
dict_values(team) ==
    IF DOMAIN team = {} THEN <<>>
    ELSE LET a == CHOOSE key \in DOMAIN team : TRUE
         IN <<team[a]>> \o dict_values([key \in DOMAIN team \ {a} |-> team[key]])

\* sorted(scores, reverse=True), of scores that are numbers
RECURSIVE sorted_reverse(_)
sorted_reverse(scores) ==
    IF scores = <<>> THEN <<>>
    ELSE LET m == CHOOSE i \in 1..Len(scores) : \A j \in 1..Len(scores) : PyGe(scores[i], scores[j])
         IN <<scores[m]>> \o sorted_reverse(RemoveAt(scores, m))

\* sorted(scores), the smallest first
RECURSIVE sorted_ascending(_)
sorted_ascending(scores) ==
    IF scores = <<>> THEN <<>>
    ELSE LET m == CHOOSE i \in 1..Len(scores) : \A j \in 1..Len(scores) : PyGe(scores[j], scores[i])
         IN <<scores[m]>> \o sorted_ascending(RemoveAt(scores, m))

\* sorted_scores.index(resistance_score) + 1, and len(sorted_scores) + 1 when index
\* raises ValueError
rank_in(sorted_scores, resistance_score) ==
    IF \E i \in 1..Len(sorted_scores) : sorted_scores[i] = resistance_score
    THEN CHOOSE i \in 1..Len(sorted_scores) :
            /\ sorted_scores[i] = resistance_score
            /\ \A j \in 1..(i - 1) : sorted_scores[j] # resistance_score
    ELSE Len(sorted_scores) + 1

\* the rank in a list sorted the wrong way round
_get_czech_team_rank_ascending(team, athlete_id, resistance_score) ==
    rank_in(sorted_ascending(dict_values(StoreScore(team, athlete_id, resistance_score))),
            resistance_score)

_get_czech_team_rank(team, athlete_id, resistance_score) ==
    rank_in(sorted_reverse(dict_values(StoreScore(team, athlete_id, resistance_score))),
            resistance_score)

\* analyze_athlete_complete: the outcome (a FatigueProfile or the exception that
\* ends the call) and the peer map the call leaves behind
analyze_athlete_complete(team, athlete_id, bouts) ==
    LET hr_correlation == _analyze_hr_accuracy_relationship(bouts)
        time_penalty == _calculate_fatigue_time_penalty(bouts)
        recovery_eff == _analyze_recovery_patterns(bouts)
        pressure_score == _evaluate_pressure_performance(bouts)
        optimal == _find_optimal_hr_zones(bouts)
        overall_resistance == _calculate_resistance_score(
            hr_correlation.value, time_penalty.value, recovery_eff, pressure_score.value)
        prone_resistance == _calculate_position_resistance(bouts, "prone")
        standing_resistance == _calculate_position_resistance(bouts, "standing")
        trends == _analyze_historical_trends(bouts)
        unchanged(exc) == [outcome |-> exc, czech_team_data |-> team]
    IN IF hr_correlation.raised THEN unchanged(hr_correlation)
       ELSE IF time_penalty.raised THEN unchanged(time_penalty)
       ELSE IF pressure_score.raised THEN unchanged(pressure_score)
       ELSE IF prone_resistance.raised THEN unchanged(prone_resistance)
       ELSE IF standing_resistance.raised THEN unchanged(standing_resistance)
       ELSE IF trends.raised THEN unchanged(trends)
       ELSE [outcome |-> Return(
                [athlete_id |-> athlete_id,
                 hr_shooting_correlation |-> hr_correlation.value,
                 lactate_time_penalty |-> time_penalty.value,
                 recovery_efficiency |-> recovery_eff,
                 pressure_response |-> pressure_score.value,
                 optimal_hr_threshold |-> optimal[1],
                 optimal_arrival_hr |-> optimal[2],
                 fatigue_resistance_score |-> overall_resistance,
                 prone_resistance |-> prone_resistance.value,
                 standing_resistance |-> standing_resistance.value,
                 trend_direction |-> trends.value.trend,
                 improvement_rate |-> trends.value.rate,
                 world_rank_percentile |-> _compare_with_world(overall_resistance),
                 czech_rank |-> _get_czech_team_rank(team, athlete_id, overall_resistance),
                 based_on_races |-> IF bouts = <<>> THEN 0 ELSE 1]),
             czech_team_data |-> StoreScore(team, athlete_id, overall_resistance)]

NoProfile == [athlete_id |-> "none", outcome |-> Return(None)]

\* one more shooting of the race reaches the history
AddBout(bout) ==
    /\ Len(shooting_bouts) < MaxBouts
    /\ shooting_bouts' = Append(shooting_bouts, bout)
    /\ profile' = NoProfile
    /\ UNCHANGED <<czech_team_data, notFatigue>>

AnalyzeAthlete(athlete_id) ==
    LET result == analyze_athlete_complete(czech_team_data, athlete_id, shooting_bouts)
    IN /\ profile' = [athlete_id |-> athlete_id, outcome |-> result.outcome]
       /\ czech_team_data' = result.czech_team_data
       /\ UNCHANGED <<shooting_bouts, notFatigue>>

RecordBout == \E bout \in BoutKinds : AddBout(bout)
Analyze == \E athlete_id \in FatigueAthletes : AnalyzeAthlete(athlete_id)

FatigueIdle ==
    /\ shooting_bouts = <<>>
    /\ profile = NoProfile
    /\ czech_team_data = <<>>

StartFatigue == FatigueIdle

NextFatigue == RecordBout \/ Analyze

\* the bouts the range claims speak of
BoutsInRange(bouts) ==
    \A i \in 1..Len(bouts) :
        /\ bouts[i].hits \in 0..5
        /\ bouts[i].total_shots \in 1..5
        /\ bouts[i].arrival_hr \in 100..200
        /\ bouts[i].shooting_hr \in 100..200

Analysed == profile.athlete_id # "none" /\ ~profile.outcome.raised

\* C10: for any list of bouts with hits in 0..5, total_shots in 1..5 and heart
\* rates in 100..200, the fatigue_resistance_score of the profile that
\* analyze_athlete_complete produces is a number in [0, 100].
C10_ResistanceScoreInRange ==
    (Analysed /\ BoutsInRange(shooting_bouts)) =>
        /\ ~profile.outcome.value.fatigue_resistance_score.nan
        /\ profile.outcome.value.fatigue_resistance_score.v >= 0
        /\ profile.outcome.value.fatigue_resistance_score.v <= 100 * Scale

\* a history of five or more bouts in range whose heart rates and accuracies
\* correlate and whose recovery efficiency is negative: the score is clamped to 0
C10_Witness ==
    /\ Analysed
    /\ BoutsInRange(shooting_bouts)
    /\ Len(shooting_bouts) >= 5
    /\ ~profile.outcome.value.hr_shooting_correlation.nan
    /\ profile.outcome.value.hr_shooting_correlation.v # 0
    /\ profile.outcome.value.recovery_efficiency < 0
    /\ profile.outcome.value.fatigue_resistance_score.v = 0

\* C11: for any list of shooting bouts, the recovery_efficiency computed by
\* _analyze_recovery_patterns lies in [0, 100] (100 for a mean recovery of 50 BPM/min
\* or more, 50 when no bout has a positive recovery time).
C11_RecoveryEfficiencyInRange ==
    Analysed =>
        /\ profile.outcome.value.recovery_efficiency >= 0
        /\ profile.outcome.value.recovery_efficiency <= 100 * Scale
        /\ (\A i \in 1..Len(shooting_bouts) : shooting_bouts[i].hr_recovery_time <= 0)
                => profile.outcome.value.recovery_efficiency = 50 * Scale

(***************************************************************************)
(* The analytics components on their own: DataService.get_athletes,        *)
(* ShootingPatternAnalyzer._analyze_pressure_patterns and                  *)
(* FatigueResistanceEngine._calculate_fatigue_time_penalty                 *)
(***************************************************************************)

\* the longest results.csv, the most shooting sequences and the most bouts handed over
MaxRows == 3
MaxSequences == 2
MaxPenaltyBouts == 2

\* rows of results.csv after _load_all_data: Rank went through pd.to_numeric, which
\* turns a rank such as "DNF" into NaN
ResultRows ==
    { [IBUId |-> "BTCZE1", Name |-> "DAVIDOVA Marketa", Nat |-> "CZE",
       Rank |-> [isna |-> FALSE, v |-> 5]],
      [IBUId |-> "BTCZE1", Name |-> "DAVIDOVA Marketa", Nat |-> "CZE",
       Rank |-> [isna |-> FALSE, v |-> 12]],
      [IBUId |-> "BTCZE2", Name |-> "JISLOVA Jessica", Nat |-> "CZE",
       Rank |-> [isna |-> TRUE, v |-> 0]],
      [IBUId |-> "BTNOR1", Name |-> "TANDREVOLD Ingrid", Nat |-> "NOR",
       Rank |-> [isna |-> FALSE, v |-> 1]] }

TypeError == Raise("TypeError", 0, "'<' not supported between instances of 'NoneType' and 'float'")

\* results_df[['IBUId', 'Name', 'Nat']].drop_duplicates()
RECURSIVE drop_duplicates(_, _)
drop_duplicates(rows, kept) ==
    IF rows = <<>> THEN kept
    ELSE LET key == [IBUId |-> Head(rows).IBUId, Name |-> Head(rows).Name,
                     Nat |-> Head(rows).Nat]
         IN IF \E i \in 1..Len(kept) : kept[i] = key
            THEN drop_duplicates(Tail(rows), kept)
            ELSE drop_duplicates(Tail(rows), Append(kept, key))

\* athletes_df[athletes_df['Nat'] == nation.upper()]
RECURSIVE NationRows(_, _)
NationRows(rows, nation) ==
    IF rows = <<>> THEN <<>>
    ELSE IF Head(rows).Nat = Upper(nation)
         THEN <<Head(rows)>> \o NationRows(Tail(rows), nation)
         ELSE NationRows(Tail(rows), nation)

\* athlete_results['Rank'].dropna() of one athlete
RECURSIVE RanksOf(_, _)
RanksOf(rows, id) ==
    IF rows = <<>> THEN <<>>
    ELSE IF Head(rows).IBUId = id /\ ~Head(rows).Rank.isna
         THEN <<Head(rows).Rank.v>> \o RanksOf(Tail(rows), id)
         ELSE RanksOf(Tail(rows), id)

RECURSIVE MinSeq(_)
MinSeq(s) == IF Len(s) = 1 THEN s[1] ELSE Min2(Head(s), MinSeq(Tail(s)))

\* the athlete_data of one row of athletes_df; a float that may be None is a
\* record [none, v]
athlete_data(results_df, row) ==
    LET finished == RanksOf(results_df, row.IBUId)
    IN [id |-> row.IBUId, name |-> row.Name, nation |-> row.Nat,
        total_races |-> Cardinality({i \in 1..Len(results_df) :
                                        results_df[i].IBUId = row.IBUId}),
        avg_rank |-> IF Len(finished) > 0
                     THEN [none |-> FALSE, v |-> (SumSeq(finished) * Scale) \div Len(finished)]
                     ELSE [none |-> TRUE, v |-> 0],
        best_rank |-> IF Len(finished) > 0 THEN [none |-> FALSE, v |-> MinSeq(finished)]
                      ELSE [none |-> TRUE, v |-> 0],
        active |-> TRUE]

\* a stable ascending sort by avg_rank
RECURSIVE SortedByAvgRank(_)
SortedByAvgRank(s) ==
    IF s = <<>> THEN <<>>
    ELSE LET m == CHOOSE i \in 1..Len(s) :
                    \A j \in 1..Len(s) :
                        \/ s[i].avg_rank.v < s[j].avg_rank.v
                        \/ s[i].avg_rank.v = s[j].avg_rank.v /\ i <= j
         IN <<s[m]>> \o SortedByAvgRank(RemoveAt(s, m))

\* athletes.sort(key=lambda x: x.get('avg_rank', 999)): every element of a list of
\* two or more is compared, and None compares with nothing
sort_by_avg_rank(athletes) ==
    IF Len(athletes) >= 2 /\ \E i \in 1..Len(athletes) : athletes[i].avg_rank.none
    THEN TypeError
    ELSE Return(SortedByAvgRank(athletes))

\* DataService.get_athletes (world_cup_standings.csv not loaded); results_df is
\* [none, rows]: None while results.csv was not found
DataService_get_athletes(results_df, nation, limit) ==
    IF results_df.none THEN Return(<<>>)
    ELSE LET unique == drop_duplicates(results_df.rows, <<>>)
             athletes_df == IF Truthy(nation) THEN NationRows(unique, nation) ELSE unique
             head == Take(athletes_df, limit)
         IN sort_by_avg_rank([i \in 1..Len(head) |->
                                athlete_data(results_df.rows, head[i])])

\* the shooting sequences: calm ones without and with hits, and ones under pressure
\* by their number, by the position in the race and by the pack around
SequenceKinds ==
    { [sequence_number |-> 1, race_position_before |-> 30, competitors_nearby |-> 0,
       shots |-> <<FALSE, FALSE, FALSE, FALSE, FALSE>>],
      [sequence_number |-> 2, race_position_before |-> 20, competitors_nearby |-> 1,
       shots |-> <<TRUE, TRUE, TRUE, TRUE, FALSE>>],
      [sequence_number |-> 4, race_position_before |-> 25, competitors_nearby |-> 0,
       shots |-> <<TRUE, TRUE, TRUE, TRUE, TRUE>>],
      [sequence_number |-> 1, race_position_before |-> 3, competitors_nearby |-> 0,
       shots |-> <<TRUE, FALSE, TRUE, FALSE, FALSE>>],
      [sequence_number |-> 1, race_position_before |-> 40, competitors_nearby |-> 3,
       shots |-> <<>>] }

is_high_pressure(seq) ==
    \/ seq.sequence_number >= 3
    \/ seq.race_position_before <= 10
    \/ seq.competitors_nearby >= 3

\* the shots (shot.hit) of the sequences under high, or low, pressure
RECURSIVE PressureShots(_, _)
PressureShots(sequences, high) ==
    IF sequences = <<>> THEN <<>>
    ELSE (IF is_high_pressure(Head(sequences)) = high THEN Head(sequences).shots ELSE <<>>)
            \o PressureShots(Tail(sequences), high)

Hits(shots) == Cardinality({i \in 1..Len(shots) : shots[i]})

\* ShootingPatternAnalyzer._analyze_pressure_patterns
_analyze_pressure_patterns(sequences) ==
    LET high_pressure_shots == PressureShots(sequences, TRUE)
        low_pressure_shots == PressureShots(sequences, FALSE)
        high_pressure_accuracy ==
            IF high_pressure_shots # <<>>
            THEN ((Hits(high_pressure_shots) * Scale) \div Len(high_pressure_shots)) * 100
            ELSE 0
        low_pressure_accuracy ==
            IF low_pressure_shots # <<>>
            THEN ((Hits(low_pressure_shots) * Scale) \div Len(low_pressure_shots)) * 100
            ELSE 0
        clutch == (high_pressure_accuracy * Scale) \div low_pressure_accuracy
    IN IF high_pressure_shots # <<>> /\ low_pressure_shots # <<>>
       THEN IF low_pressure_accuracy = 0 THEN ZeroDivisionError
            ELSE Return([high_pressure_accuracy |-> high_pressure_accuracy,
                         low_pressure_accuracy |-> low_pressure_accuracy,
                         clutch_performance |-> Min2(100 * Scale, clutch * 100),
                         choke_risk |-> IF clutch * 100 < 85 * Scale
                                        THEN (Scale - clutch) * 100 ELSE 0])
       ELSE Return([high_pressure_accuracy |-> high_pressure_accuracy,
                    low_pressure_accuracy |-> low_pressure_accuracy,
                    clutch_performance |-> 0,
                    choke_risk |-> 0])

NoCall == [fn |-> "none", raised |-> FALSE]

\* what is kept of a call: the function, the case it was given, whether it raised
GetAthletesOfData(results_df, nation, limit) ==
    /\ analytics' =
          [fn |-> "DataService.get_athletes",
           results_df |-> results_df, nation |-> nation, limit |-> limit,
           outcome |-> DataService_get_athletes(results_df, nation, limit),
           raised |-> DataService_get_athletes(results_df, nation, limit).raised]
    /\ UNCHANGED notAnalytics

AnalyzePressurePatterns(sequences) ==
    /\ analytics' =
          [fn |-> "_analyze_pressure_patterns",
           sequences |-> sequences,
           outcome |-> _analyze_pressure_patterns(sequences),
           raised |-> _analyze_pressure_patterns(sequences).raised]
    /\ UNCHANGED notAnalytics

CalculateFatigueTimePenalty(bouts) ==
    /\ analytics' =
          [fn |-> "_calculate_fatigue_time_penalty",
           bouts |-> bouts,
           outcome |-> _calculate_fatigue_time_penalty(bouts),
           raised |-> _calculate_fatigue_time_penalty(bouts).raised]
    /\ UNCHANGED notAnalytics

ListDataAthletes ==
    \E results_df \in {[none |-> TRUE, rows |-> <<>>]}
                        \cup {[none |-> FALSE, rows |-> rows] :
                                 rows \in SeqsUpTo(ResultRows, MaxRows)},
       nation \in {"None", "CZE", "nor"}, limit \in 1..MaxRows :
        GetAthletesOfData(results_df, nation, limit)
PressurePatterns ==
    \E sequences \in SeqsUpTo(SequenceKinds, MaxSequences) : AnalyzePressurePatterns(sequences)
TimePenalty ==
    \E bouts \in SeqsUpTo(BoutKinds, MaxPenaltyBouts) : CalculateFatigueTimePenalty(bouts)

AnalyticsIdle == analytics = NoCall
StartAnalytics == AnalyticsIdle

NextAnalytics == ListDataAthletes \/ PressurePatterns \/ TimePenalty

\* C7: the analytics components return a value and never raise, whatever they are
\* given: DataService.get_athletes with an athlete without a finished race (avg_rank
\* None), _analyze_pressure_patterns with both pressure groups shot and a low-pressure
\* accuracy of 0, _calculate_fatigue_time_penalty with a bout of total_shots = 0.
C7_AnalyticsNeverRaise == analytics.fn # "none" => ~analytics.raised

(***************************************************************************)
(* services/digital_twin.py DigitalTwinEngine                              *)
(*                                                                         *)
(* As written, the field order of the PhysiologicalModel dataclass (a      *)
(* field with a default before fields without one) makes the class         *)
(* statement itself raise TypeError; the engine is modelled as its methods *)
(* read, with the class constructed field by field.                        *)
(*                                                                         *)
(* Every number of a twin is carried in thousandths, also the ones that    *)
(* are ints in the source (a percentage change turns them into floats).    *)
(* A parameter that holds None is listed in the twin's non_numeric set.    *)
(***************************************************************************)

\* numpy's global generator, as a congruential generator over RngModulus states:
\* never seeded by the program, so a process starts in any state; every draw
\* advances it
RngModulus == 8
rng_next(s) == (5 * s + 3) % RngModulus

\* np.random.random(): uniform in [0, 1)
rng_random(s) == (s * Scale) \div RngModulus
\* a randint over twice the range
rng_randint_wide(s, low, high) == low + (rng_random(s) * (high - low) * 2) \div Scale
\* np.random.randint(low, high): low <= n < high
rng_randint(s, low, high) == low + (rng_random(s) * (high - low)) \div Scale
\* np.random.normal(0, 2), cut to (-4, 4)
rng_normal(s) == (rng_random(s) - Scale \div 2) * 8

RECURSIVE rng_advance(_, _)
rng_advance(s, n) == IF n = 0 THEN s ELSE rng_advance(rng_next(s), n - 1)

NumericParamList ==
    <<"age", "weight", "height", "vo2_max", "lactate_threshold", "anaerobic_threshold",
      "hr_max", "hr_rest", "optimal_shooting_hr", "hr_recovery_rate",
      "fatigue_accumulation_rate", "fatigue_recovery_rate", "lactate_clearance_rate",
      "pressure_resistance", "focus_duration", "stress_recovery", "ski_efficiency",
      "shooting_technique", "transition_speed">>
NumericParams == {NumericParamList[i] : i \in 1..Len(NumericParamList)}
DictParams == {"hr_zones", "shooting_accuracy_curve"}
StringParams == {"athlete_id", "name"}

\* hasattr(modified, param)
hasattr(param) == param \in NumericParams \cup DictParams \cup StringParams

\* int(x) of a non-negative float, as a float again
IntOf(x) == (x \div Scale) * Scale

EmptyHeap == [twin |-> <<>>, hr_zones |-> <<>>, curve |-> <<>>]

\* a local name for a value: the value is computed once, Body reads it by name
With(value, Body(_)) == CHOOSE result \in {Body(v) : v \in {value}} : TRUE

\* a new object of one kind: the next free reference
Alloc(objects, value) ==
    [ref |-> Len(objects) + 1, objects |-> Append(objects, value)]

\* PhysiologicalModel.calculate_hr_zones: self.hr_zones is bound to a new dict
HrZones(hr_rest, hr_max) ==
    [z \in {"Z1", "Z2", "Z3", "Z4", "Z5"} |->
        CASE z = "Z1" -> <<hr_rest, IntOf((hr_max * 6) \div 10)>>
          [] z = "Z2" -> <<IntOf((hr_max * 6) \div 10), IntOf((hr_max * 7) \div 10)>>
          [] z = "Z3" -> <<IntOf((hr_max * 7) \div 10), IntOf((hr_max * 8) \div 10)>>
          [] z = "Z4" -> <<IntOf((hr_max * 8) \div 10), IntOf((hr_max * 9) \div 10)>>
          [] OTHER -> <<IntOf((hr_max * 9) \div 10), hr_max>>]

calculate_hr_zones(h, ref) ==
    LET self == h.twin[ref]
    IN IF {"hr_rest", "hr_max"} \cap self.non_numeric # {}
       THEN [heap |-> h, outcome |-> TypeError]
       ELSE LET new == Alloc(h.hr_zones, HrZones(self.hr_rest, self.hr_max))
            IN [heap |-> [h EXCEPT !.hr_zones = new.objects,
                                   !.twin[ref].hr_zones = new.ref,
                                   !.twin[ref].non_numeric = @ \ {"hr_zones"}],
                outcome |-> Return(None)]

\* the accuracy generate_shooting_curve stores for one heart rate
CurveAccuracy(hr, optimal_shooting_hr, shooting_technique) ==
    LET by_hr == IF hr * Scale <= optimal_shooting_hr
                 THEN 950 - (optimal_shooting_hr - hr * Scale) \div Scale
                 ELSE 950 - ((hr * Scale - optimal_shooting_hr) * 3) \div Scale
    IN Max2(500, Min2(1000, (by_hr * shooting_technique) \div Scale))

CurveKeys == {100 + 5 * k : k \in 0..19}

\* PhysiologicalModel.generate_shooting_curve: the entries are written into the
\* dict self.shooting_accuracy_curve already refers to
generate_shooting_curve(h, ref) ==
    LET self == h.twin[ref]
        old == h.curve[self.shooting_accuracy_curve]
    IN IF {"optimal_shooting_hr", "shooting_technique", "shooting_accuracy_curve"}
            \cap self.non_numeric # {}
       THEN [heap |-> h, outcome |-> TypeError]
       ELSE [heap |-> [h EXCEPT !.curve[self.shooting_accuracy_curve] =
                        [hr \in DOMAIN old \cup CurveKeys |->
                            IF hr \in CurveKeys
                            THEN CurveAccuracy(hr, self.optimal_shooting_hr,
                                               self.shooting_technique)
                            ELSE old[hr]]],
             outcome |-> Return(None)]

\* the athletes a twin is asked for, and the one of them that has a summary
TwinAthletes == <<"BTCZE1">>
NoTwinAthlete == "BTXXX0"
WorldRanks == {10}

\* the twin create_twin builds from athlete_data (age, weight, height at their
\* defaults), before __post_init__; the three draws are made in this order
NewTwin(athlete_id, world_rank, s) ==
    [athlete_id |-> athlete_id,
     name |-> "Unknown",
     age |-> 25 * Scale,
     weight |-> 60 * Scale,
     height |-> 170 * Scale,
     vo2_max |-> Max2(45 * Scale, Min2(75 * Scale,
                    70 * Scale - world_rank * 300 + rng_normal(s))),
     lactate_threshold |-> 750 + (50 - world_rank) * 2,
     anaerobic_threshold |-> 850 + (50 - world_rank),
     hr_max |-> (195 - 25 \div 2) * Scale,
     hr_rest |-> (45 + rng_randint(rng_next(s), 0 - 5, 5)) * Scale,
     hr_zones |-> 0,
     optimal_shooting_hr |-> (155 + rng_randint(rng_advance(s, 2), 0 - 10, 10)) * Scale,
     hr_recovery_rate |-> 1200 + (50 - world_rank) * 10,
     shooting_accuracy_curve |-> 0,
     fatigue_accumulation_rate |-> 20 + world_rank \div 2,
     fatigue_recovery_rate |-> 30 + (50 - world_rank) \div 2,
     lactate_clearance_rate |-> 25 + ((50 - world_rank) * 3) \div 10,
     pressure_resistance |-> 800 - world_rank * 5,
     focus_duration |-> 30 * Scale + (50 - world_rank) * 500,
     stress_recovery |-> 700 + (50 - world_rank) * 3,
     ski_efficiency |-> 900 - world_rank * 3,
     shooting_technique |-> 850 - world_rank * 2,
     transition_speed |-> 25 * Scale + world_rank * 200,
     non_numeric |-> {}]

\* PhysiologicalModel(...) with its __post_init__: the two default dicts are
\* created empty, then filled
Construct(h, fields) ==
    LET zones == Alloc(h.hr_zones, <<>>)
        curve == Alloc(h.curve, <<>>)
        self == Alloc(h.twin, [fields EXCEPT !.hr_zones = zones.ref,
                                             !.shooting_accuracy_curve = curve.ref])
    IN With([twin |-> self.objects, hr_zones |-> zones.objects, curve |-> curve.objects],
            LAMBDA h1 :
       With(calculate_hr_zones(h1, self.ref).heap, LAMBDA h2 :
       With(generate_shooting_curve(h2, self.ref).heap, LAMBDA h3 :
            [heap |-> h3, ref |-> self.ref])))

\* copy.deepcopy(twin) reduced to a copy of the twin object alone
copy_copy(h, ref) ==
    LET self == Alloc(h.twin, h.twin[ref])
    IN [heap |-> [h EXCEPT !.twin = self.objects], ref |-> self.ref]
\* copy.deepcopy(twin): a new twin object with new dicts of equal content
deepcopy(h, ref) ==
    LET zones == Alloc(h.hr_zones, h.hr_zones[h.twin[ref].hr_zones])
        curve == Alloc(h.curve, h.curve[h.twin[ref].shooting_accuracy_curve])
        self == Alloc(h.twin, [h.twin[ref] EXCEPT !.hr_zones = zones.ref,
                                                  !.shooting_accuracy_curve = curve.ref])
    IN [heap |-> [twin |-> self.objects, hr_zones |-> zones.objects,
                  curve |-> curve.objects],
        ref |-> self.ref]

\* what a reference to a twin stands for: its fields with the dicts' contents
Deref(h, ref) ==
    [fields |-> h.twin[ref],
     hr_zones |-> h.hr_zones[h.twin[ref].hr_zones],
     shooting_accuracy_curve |-> h.curve[h.twin[ref].shooting_accuracy_curve]]

\* the objects no registered twin reaches are reclaimed
RECURSIVE Collect(_, _, _, _)
Collect(registry, h, order, kept) ==
    IF order = <<>> THEN kept
    ELSE IF Head(order) \notin DOMAIN registry
    THEN Collect(registry, h, Tail(order), kept)
    ELSE LET value == Deref(h, registry[Head(order)])
             zones == Alloc(kept.heap.hr_zones, value.hr_zones)
             curve == Alloc(kept.heap.curve, value.shooting_accuracy_curve)
             self == Alloc(kept.heap.twin,
                           [value.fields EXCEPT !.hr_zones = zones.ref,
                                                !.shooting_accuracy_curve = curve.ref])
         IN Collect(registry, h, Tail(order),
                    [heap |-> [twin |-> self.objects, hr_zones |-> zones.objects,
                               curve |-> curve.objects],
                     twins |-> [a \in DOMAIN kept.twins \cup {Head(order)} |->
                                  IF a = Head(order) THEN self.ref ELSE kept.twins[a]]])

Collected(registry, h) ==
    Collect(registry, h, TwinAthletes, [heap |-> EmptyHeap, twins |-> <<>>])

\* create_twin: the twin is built and registered under its athlete id
CreateTwin(athlete_id, world_rank) ==
    \E built \in {Construct(heap, NewTwin(athlete_id, world_rank, rng_state))} :
    \E kept \in {Collected([a \in DOMAIN twins \cup {athlete_id} |->
                                IF a = athlete_id THEN built.ref ELSE twins[a]],
                            built.heap)} :
       /\ twins' = kept.twins
       /\ heap' = kept.heap
       /\ rng_state' = rng_advance(rng_state, 3)
       /\ whatif' = [athlete_id |-> "none", raised |-> FALSE]
       /\ UNCHANGED notTwin

\* a tactical pacing that slows the first lap only
get_optimal_strategy_first_lap_only(twin, race) ==
    LET threshold_intensity == twin.lactate_threshold
    IN [lap \in 1..race.laps |->
          IF race.race_type = "sprint"
          THEN IF lap = 1 THEN (threshold_intensity * 95) \div 100
               ELSE IF lap = race.laps THEN (threshold_intensity * 105) \div 100
               ELSE threshold_intensity
          ELSE IF race.race_type = "individual"
          THEN (threshold_intensity * 90) \div 100
          ELSE IF lap < 2 THEN (threshold_intensity * 92) \div 100
               ELSE (threshold_intensity * 98) \div 100]

\* get_optimal_strategy: the target intensity of every lap
get_optimal_strategy(twin, race) ==
    LET threshold_intensity == twin.lactate_threshold
    IN [lap \in 1..race.laps |->
          IF race.race_type = "sprint"
          THEN IF lap = 1 THEN (threshold_intensity * 95) \div 100
               ELSE IF lap = race.laps THEN (threshold_intensity * 105) \div 100
               ELSE threshold_intensity
          ELSE IF race.race_type = "individual"
          THEN (threshold_intensity * 90) \div 100
          ELSE IF lap <= 2 THEN (threshold_intensity * 92) \div 100
               ELSE (threshold_intensity * 98) \div 100]

\* the fatigue after a lap, without the cap
accumulate_fatigue_uncapped(fatigue, rate, actual_intensity) ==
    fatigue + (rate * actual_intensity) \div Scale

\* min(1.0, state['fatigue'] + twin.fatigue_accumulation_rate * actual_intensity)
accumulate_fatigue(fatigue, rate, actual_intensity) ==
    Min2(Scale, fatigue + (rate * actual_intensity) \div Scale)

\* simulate_lap: the state after one lap of skiing
simulate_lap(twin, race, state, strategy, lap_number) ==
    LET lap_distance == race.distance \div race.laps
        target_intensity == DictGet(strategy, lap_number, 800)
        actual_intensity == (target_intensity * (Scale - state.fatigue \div 5)) \div Scale
        base_speed == (25 * twin.ski_efficiency * actual_intensity) \div Scale
        altitude_factor == Scale - (race.altitude * 5) \div Scale
        temp_factor == Scale - Abs(race.temperature + 5)
        wind_factor == Scale - race.wind_speed * 10
        actual_speed == (((((base_speed * altitude_factor) \div Scale) * temp_factor)
                            \div Scale) * wind_factor) \div Scale
        lap_time == ((lap_distance * 3600 * 10) \div actual_speed) * 100
        avg_hr == (twin.hr_max * actual_intensity) \div Scale
        lactate_production == 2 * Scale + actual_intensity * 10
        lactate_clearance == (twin.lactate_clearance_rate * lap_time) \div Scale
        new_lactate == state.lactate + lactate_production - lactate_clearance
        new_fatigue == accumulate_fatigue(state.fatigue, twin.fatigue_accumulation_rate,
                                          actual_intensity)
    IN IF {"ski_efficiency", "hr_max", "lactate_clearance_rate", "fatigue_accumulation_rate"}
            \cap twin.non_numeric # {}
       THEN TypeError
       ELSE IF actual_speed = 0 THEN ZeroDivisionError
       ELSE Return([state EXCEPT
                !.time = @ + lap_time,
                !.distance = @ + lap_distance,
                !.hr = avg_hr,
                !.lactate = Max2(Scale, new_lactate),
                !.fatigue = new_fatigue,
                !.ski_time = @ + lap_time,
                !.segments = Append(@, [type |-> "ski", lap |-> lap_number,
                                        time |-> lap_time])])

\* round(x / 5) * 5 for x in thousandths: to the nearest, a tie to the even one
RoundToFive(x) ==
    LET q == x \div (5 * Scale)
        r == x % (5 * Scale)
    IN IF 2 * r > 5 * Scale \/ (2 * r = 5 * Scale /\ q % 2 = 1) THEN (q + 1) * 5 ELSE q * 5

\* a bout that stops after four shots
RECURSIVE ShotsOfFour(_, _, _, _, _)
ShotsOfFour(base_accuracy, pressure_resistance, s, shot, pattern) ==
    IF shot >= 4 THEN [pattern |-> pattern, rng |-> s]
    ELSE ShotsOfFour(base_accuracy, pressure_resistance, rng_next(s), shot + 1,
                     Append(pattern, IF rng_random(s) < base_accuracy THEN 1 ELSE 0))

\* the five shots of simulate_shooting: each one a draw of the generator
RECURSIVE Shots(_, _, _, _, _)
Shots(base_accuracy, pressure_resistance, s, shot, pattern) ==
    IF shot = 5 THEN [pattern |-> pattern, rng |-> s]
    ELSE LET shot_accuracy == IF shot = 4 THEN (base_accuracy * pressure_resistance) \div Scale
                              ELSE base_accuracy
         IN Shots(base_accuracy, pressure_resistance, rng_next(s), shot + 1,
                  Append(pattern, IF rng_random(s) < shot_accuracy THEN 1 ELSE 0))

\* simulate_shooting: the outcome of a bout of 5 shots ('hr' is left as it was) and
\* the generator's state after it; a pressure_resistance of None stops the bout at
\* its last shot, four draws made
simulate_shooting(twin, curves, state, position, race, s) ==
    LET arrival_hr == state.hr
        prep_time == twin.transition_speed
        recovered_hr == arrival_hr - (twin.hr_recovery_rate * prep_time) \div Scale
        shooting_hr == Max2(twin.hr_rest + 20 * Scale, recovered_hr)
        hr_key == RoundToFive(shooting_hr)
        on_curve == DictGet(curves[twin.shooting_accuracy_curve], hr_key, 800)
        by_position == IF position = "standing" THEN (on_curve * 9) \div 10 ELSE on_curve
        by_fatigue == (by_position * (Scale - (state.fatigue * 15) \div 100)) \div Scale
        wind_penalty == Min2(200, race.wind_speed * 20)
        base_accuracy == (by_fatigue * (Scale - wind_penalty)) \div Scale
        shooting_time == prep_time + 15 * Scale
    IN IF {"transition_speed", "hr_recovery_rate", "hr_rest", "shooting_accuracy_curve"}
            \cap twin.non_numeric # {}
       THEN [outcome |-> TypeError, rng |-> s]
       ELSE IF "pressure_resistance" \in twin.non_numeric
       THEN [outcome |-> TypeError, rng |-> rng_advance(s, 4)]
       ELSE With(Shots(base_accuracy, twin.pressure_resistance, s, 0, <<>>), LAMBDA shots :
            With(SumSeq(shots.pattern), LAMBDA hits :
            [outcome |-> Return([state EXCEPT
                !.time = @ + shooting_time,
                !.misses = @ + (5 - hits),
                !.shots_fired = @ + 5,
                !.shooting_time = @ + shooting_time,
                !.segments = Append(@, [type |-> "shooting", position |-> position,
                                        hits |-> hits, misses |-> 5 - hits,
                                        pattern |-> shots.pattern,
                                        time |-> shooting_time])]),
             rng |-> shots.rng]))

\* RaceSimulation.get_penalty_loop_distance
get_penalty_loop_distance(race) ==
    IF race.race_type \in {"sprint", "pursuit"} THEN 150 ELSE 0

\* simulate_penalty_loops: the time the misses of a bout cost
simulate_penalty_loops(twin, state, misses, race) ==
    LET loop_distance == get_penalty_loop_distance(race)
        loop_speed == (20 * twin.ski_efficiency * (Scale - (state.fatigue * 3) \div 10))
                        \div Scale
    IN IF loop_distance = 0 THEN Return(misses * 60 * Scale)
       ELSE IF "ski_efficiency" \in twin.non_numeric THEN TypeError
       ELSE IF loop_speed = 0 THEN ZeroDivisionError
       ELSE Return(misses * ((loop_distance * 3600 * Scale) \div loop_speed))

\* get_winning_time: the women's time of the race type, 1500 for an unknown type
get_winning_time(race) ==
    CASE race.race_type = "sprint" -> 1200
      [] race.race_type = "pursuit" -> 1800
      [] race.race_type = "individual" -> 2400
      [] race.race_type = "mass_start" -> 1920
      [] OTHER -> 1500

\* calculate_final_position: each 30 seconds behind the winner cost one position
calculate_final_position(state, race) ==
    LET time_behind_winner == Max2(0, state.time - get_winning_time(race) * Scale)
        positions_lost == time_behind_winner \div (30 * Scale)
    IN Min2(race.competitors, race.start_position + positions_lost)

\* one pass of the loop of simulate_race: a lap of skiing, then, except after the
\* last lap, a bout and penalty loops for the misses its result carries, which are
\* the misses of the race so far
race_iteration(twin, curves, race, strategy, state, lap, s) ==
    With(simulate_lap(twin, race, state, strategy, lap), LAMBDA lap_result :
    IF lap_result.raised \/ lap = race.laps THEN [outcome |-> lap_result, rng |-> s]
    ELSE With(simulate_shooting(twin, curves, lap_result.value,
                                IF lap <= 2 THEN "prone" ELSE "standing", race, s),
              LAMBDA shooting_result :
         IF shooting_result.outcome.raised \/ shooting_result.outcome.value.misses = 0
         THEN shooting_result
         ELSE With(simulate_penalty_loops(twin, shooting_result.outcome.value,
                                          shooting_result.outcome.value.misses, race),
                   LAMBDA penalty_time :
              IF penalty_time.raised
              THEN [outcome |-> penalty_time, rng |-> shooting_result.rng]
              ELSE [outcome |-> Return([shooting_result.outcome.value EXCEPT
                                          !.time = @ + penalty_time.value]),
                    rng |-> shooting_result.rng])))

\* for lap in range(lap, race.laps + 1)
RECURSIVE RaceLaps(_, _, _, _, _, _, _)
RaceLaps(twin, curves, race, strategy, state, lap, s) ==
    IF lap > race.laps THEN [outcome |-> Return(state), rng |-> s]
    ELSE With(race_iteration(twin, curves, race, strategy, state, lap, s), LAMBDA pass :
         IF pass.outcome.raised THEN pass
         ELSE RaceLaps(twin, curves, race, strategy, pass.outcome.value, lap + 1, pass.rng))

\* the state simulate_race starts from
race_state(twin, race) ==
    [time |-> 0, distance |-> 0, hr |-> twin.hr_rest + 50 * Scale,
     lactate |-> 2 * Scale, fatigue |-> 0, shots_fired |-> 0, misses |-> 0,
     ski_time |-> 0, shooting_time |-> 0,
     position |-> race.start_position, segments |-> <<>>]

\* the result dict simulate_race builds from the final state
race_result(twin, race, state) ==
    [athlete_id |-> twin.athlete_id,
     name |-> twin.name,
     race_type |-> race.race_type,
     total_time |-> state.time,
     ski_time |-> state.ski_time,
     shooting_time |-> state.shooting_time,
     total_misses |-> state.misses,
     final_position |-> calculate_final_position(state, race),
     avg_hr |-> 0,
     max_hr |-> twin.hr_max,
     fatigue_level |-> state.fatigue,
     segments |-> state.segments]

\* simulate_race with the optimal strategy: the result dict, or the exception, and
\* the generator's state after the race
simulate_race(twin, curves, race, s) ==
    IF {"lactate_threshold", "hr_rest"} \cap twin.non_numeric # {}
    THEN [outcome |-> TypeError, rng |-> s]
    ELSE With(RaceLaps(twin, curves, race, get_optimal_strategy(twin, race),
                       race_state(twin, race), 1, s), LAMBDA final :
         IF final.outcome.raised THEN final
         ELSE [outcome |-> Return(race_result(twin, race, final.outcome.value)),
               rng |-> final.rng])

ValueError == Raise("ValueError", 0, "could not convert string to float")

\* the loop of modify_twin over modifications.items(); a value is a percentage
\* string ("+10 percent"), a string with 'percent' that float() refuses, a number,
\* or None
RECURSIVE ModifyLoop(_, _, _)
ModifyLoop(h, ref, items) ==
    IF items = <<>> THEN [heap |-> h, outcome |-> Return(None)]
    ELSE LET param == Head(items).param
             value == Head(items).value
             modified == h.twin[ref]
         IN IF ~hasattr(param) THEN ModifyLoop(h, ref, Tail(items))
            ELSE IF value.kind = "bad_percent" THEN [heap |-> h, outcome |-> ValueError]
            ELSE IF value.kind = "percent"
            THEN IF param \notin NumericParams \/ param \in modified.non_numeric
                 THEN [heap |-> h, outcome |-> TypeError]
                 ELSE ModifyLoop([h EXCEPT !.twin[ref][param] =
                                    (@ * (Scale + value.v * 10)) \div Scale],
                                 ref, Tail(items))
            ELSE IF value.kind = "number" /\ param \in NumericParams
            THEN ModifyLoop([h EXCEPT !.twin[ref][param] = value.v,
                                      !.twin[ref].non_numeric = @ \ {param}],
                            ref, Tail(items))
            ELSE ModifyLoop([h EXCEPT !.twin[ref].non_numeric = @ \cup {param}],
                            ref, Tail(items))

\* modify_twin: the overrides are applied to a deep copy, whose derived
\* parameters are then recalculated
modify_twin(h, ref, modifications) ==
    With(deepcopy(h, ref), LAMBDA copy :
    With(ModifyLoop(copy.heap, copy.ref, modifications), LAMBDA looped :
    IF looped.outcome.raised THEN looped
    ELSE With(calculate_hr_zones(looped.heap, copy.ref), LAMBDA zoned :
         IF zoned.outcome.raised THEN zoned
         ELSE With(generate_shooting_curve(zoned.heap, copy.ref), LAMBDA curved :
              IF curved.outcome.raised THEN curved
              ELSE [heap |-> curved.heap, outcome |-> Return(copy.ref)]))))

\* the RaceSimulation of a scenario: distance, temperature, altitude and wind at
\* their defaults
RaceOf(scenario) ==
    [race_type |-> scenario.race_type, distance |-> 7500, laps |-> scenario.laps,
     temperature |-> 0 - 5, altitude |-> 500, wind_speed |-> 2,
     start_position |-> 1, competitors |-> 30]

\* run_what_if_scenario: the improvement dict or the exception, the heap and the
\* generator's state the call leaves behind
run_what_if_scenario(registry, h, athlete_id, scenario, s) ==
    IF athlete_id \notin DOMAIN registry
    THEN [heap |-> h, rng |-> s, outcome |-> Raise("ValueError", 0, "No digital twin")]
    ELSE With(modify_twin(h, registry[athlete_id], scenario.modifications),
              LAMBDA modified_twin :
         IF modified_twin.outcome.raised
         THEN [heap |-> modified_twin.heap, rng |-> s, outcome |-> modified_twin.outcome]
         ELSE With(simulate_race(modified_twin.heap.twin[registry[athlete_id]],
                                 modified_twin.heap.curve, RaceOf(scenario), s),
                   LAMBDA baseline :
              IF baseline.outcome.raised
              THEN [heap |-> modified_twin.heap, rng |-> baseline.rng,
                    outcome |-> baseline.outcome]
              ELSE With(simulate_race(modified_twin.heap.twin[modified_twin.outcome.value],
                                      modified_twin.heap.curve, RaceOf(scenario),
                                      baseline.rng),
                        LAMBDA modified :
                   IF modified.outcome.raised
                   THEN [heap |-> modified_twin.heap, rng |-> modified.rng,
                         outcome |-> modified.outcome]
                   ELSE [heap |-> modified_twin.heap, rng |-> modified.rng,
                         outcome |-> Return(
                           [time_saved |-> baseline.outcome.value.total_time
                                               - modified.outcome.value.total_time,
                            positions_gained |-> baseline.outcome.value.final_position
                                               - modified.outcome.value.final_position,
                            shooting_improvement |-> baseline.outcome.value.total_misses
                                               - modified.outcome.value.total_misses,
                            baseline |-> baseline.outcome.value,
                            modified |-> modified.outcome.value,
                            scenario |-> scenario])])))

\* the most laps of a scenario's race
MaxLaps == 3

Percent(v) == [kind |-> "percent", v |-> v]
Number(v) == [kind |-> "number", v |-> v]
BadPercent == [kind |-> "bad_percent", v |-> 0]
NoneValue == [kind |-> "none", v |-> 0]

\* "+0 percent" on every numeric parameter
ZeroPercentAll ==
    [i \in 1..Len(NumericParamList) |-> [param |-> NumericParamList[i], value |-> Percent(0)]]

\* the modifications maps of the scenarios, as their items in order
ModificationMaps ==
    { <<>>,
      ZeroPercentAll,
      <<[param |-> "shooting_technique", value |-> Percent(10)]>>,
      <<[param |-> "hr_max", value |-> Number(180 * Scale)]>>,
      <<[param |-> "optimal_shooting_hr", value |-> Percent(0 - 5)],
        [param |-> "ski_efficiency", value |-> BadPercent]>>,
      <<[param |-> "shooting_technique", value |-> Percent(10)],
        [param |-> "name", value |-> Percent(5)]>>,
      <<[param |-> "pressure_resistance", value |-> NoneValue]>>,
      <<[param |-> "shooting_technique", value |-> Number(900)],
        [param |-> "hr_max", value |-> NoneValue]>>,
      <<[param |-> "coach", value |-> Number(1)]>> }

Scenarios ==
    [modifications : ModificationMaps, race_type : {"sprint", "individual"},
     laps : 1..MaxLaps]

NoWhatIf == [athlete_id |-> "none", raised |-> FALSE]

\* run_what_if_scenario; of the returned dict, the baseline and modified results
\* are kept without their segments
Summary(result) ==
    [total_time |-> result.total_time, total_misses |-> result.total_misses,
     final_position |-> result.final_position, max_hr |-> result.max_hr,
     fatigue_level |-> result.fatigue_level]

RunWhatIfScenario(athlete_id, scenario) ==
    \E result \in {run_what_if_scenario(twins, heap, athlete_id, scenario, rng_state)} :
    \E kept \in {Collected(twins, result.heap)} :
       /\ twins' = kept.twins
       /\ heap' = kept.heap
       /\ rng_state' = result.rng
       /\ whatif' =
            IF result.outcome.raised
            THEN [athlete_id |-> athlete_id, raised |-> TRUE,
                  kind |-> result.outcome.kind]
            ELSE [athlete_id |-> athlete_id, scenario |-> scenario, raised |-> FALSE,
                  time_saved |-> result.outcome.value.time_saved,
                  positions_gained |-> result.outcome.value.positions_gained,
                  shooting_improvement |-> result.outcome.value.shooting_improvement,
                  baseline |-> Summary(result.outcome.value.baseline),
                  modified |-> Summary(result.outcome.value.modified)]
       /\ UNCHANGED notTwin

BuildTwin ==
    \E i \in 1..Len(TwinAthletes), world_rank \in WorldRanks :
        CreateTwin(TwinAthletes[i], world_rank)
WhatIf ==
    \E athlete_id \in {TwinAthletes[i] : i \in 1..Len(TwinAthletes)} \cup {NoTwinAthlete},
       scenario \in Scenarios :
        RunWhatIfScenario(athlete_id, scenario)

TwinIdle ==
    /\ twins = <<>>
    /\ heap = EmptyHeap
    /\ rng_state = 0
    /\ whatif = NoWhatIf

StartTwin ==
    /\ twins = <<>>
    /\ heap = EmptyHeap
    /\ rng_state \in 0..(RngModulus - 1)
    /\ whatif = NoWhatIf

NextTwin == BuildTwin \/ WhatIf

\* C8: a what-if scenario that applies "+0 percent" to every numeric parameter of
\* the twin yields a modified result identical to the baseline of the same race:
\* time_saved = 0, positions_gained = 0 and shooting_improvement = 0.
C8_ZeroPercentIsBaseline ==
    (/\ whatif.athlete_id # "none"
     /\ ~whatif.raised
     /\ whatif.scenario.modifications = ZeroPercentAll) =>
        /\ whatif.modified = whatif.baseline
        /\ whatif.time_saved = 0
        /\ whatif.positions_gained = 0
        /\ whatif.shooting_improvement = 0

\* C9: run_what_if_scenario never changes the registered twin: after the call,
\* whether it returned or raised, every field of twins[athlete_id], hr_zones and
\* shooting_accuracy_curve included, is what it was before the call, for any
\* modifications map.
\* (a step that leaves a what-if outcome is a call of run_what_if_scenario:
\* create_twin clears the outcome)
C9_RegisteredTwinUnchanged ==
    [][whatif'.athlete_id # "none" =>
        /\ DOMAIN twins' = DOMAIN twins
        /\ \A a \in DOMAIN twins : Deref(heap', twins'[a]) = Deref(heap, twins[a])]_vars

\* a what-if on a registered twin returned, and its modified simulation ran on a
\* twin whose hr_max was overridden
C9_Witness ==
    /\ whatif.athlete_id \in DOMAIN twins
    /\ ~whatif.raised
    /\ whatif.modified.max_hr = 180 * Scale
    /\ whatif.baseline.max_hr = heap.twin[twins[whatif.athlete_id]].hr_max
    /\ heap.twin[twins[whatif.athlete_id]].hr_max # 180 * Scale

(***************************************************************************)
(* IBUFullService._parse_shooting                                          *)
(***************************************************************************)

\* the longest "Shootings" text
MaxShootingLen == 7
\* the characters a "Shootings" text is made of
ShootingChars == {"0", "1", "2", "+"}

NotParsed == [parsed |-> FALSE]

\* str.split(sep): the pieces between the separators, empty pieces included
RECURSIVE SplitLoop(_, _, _)
SplitLoop(str, sep, piece) ==
    IF str = <<>> THEN <<piece>>
    ELSE IF Head(str) = sep THEN <<piece>> \o SplitLoop(Tail(str), sep, <<>>)
    ELSE SplitLoop(Tail(str), sep, Append(piece, Head(str)))

Split(str, sep) == SplitLoop(str, sep, <<>>)

\* for part in parts: if part.isdigit(): shots.append(int(part))
RECURSIVE ShotsLoop(_)
ShotsLoop(parts) ==
    IF parts = <<>> THEN <<>>
    ELSE IF IsDigit(Head(parts)) THEN <<ParseInt(Head(parts))>> \o ShotsLoop(Tail(parts))
    ELSE ShotsLoop(Tail(parts))

\* shots[:2] and shots[2:]
FirstTwo(shots) == SubSeq(shots, 1, Min2(2, Len(shots)))
FromThird(shots) == SubSeq(shots, 3, Len(shots))

\* splitting the stages after the first one instead of after the second
_parse_shooting_split_after_first(str) ==
    IF str = <<>> THEN [total_misses |-> 0, pattern |-> <<>>]
    ELSE LET shots == IF \E i \in 1..Len(str) : str[i] = "+"
                      THEN ShotsLoop(Split(str, "+")) ELSE <<>>
         IN [total_misses |-> SumSeq(shots),
             pattern |-> shots,
             prone |-> IF Len(shots) >= 2 THEN SumSeq(SubSeq(shots, 1, 1)) ELSE 0,
             standing |-> IF Len(shots) >= 4 THEN SumSeq(SubSeq(shots, 2, Len(shots))) ELSE 0]

_parse_shooting(str) ==
    IF str = <<>> THEN [total_misses |-> 0, pattern |-> <<>>]
    ELSE LET shots == IF \E i \in 1..Len(str) : str[i] = "+"
                      THEN ShotsLoop(Split(str, "+")) ELSE <<>>
         IN [total_misses |-> SumSeq(shots),
             pattern |-> shots,
             prone |-> IF Len(shots) >= 2 THEN SumSeq(FirstTwo(shots)) ELSE 0,
             standing |-> IF Len(shots) >= 4 THEN SumSeq(FromThird(shots)) ELSE 0]

\* one more character of the text the authority sends
TypeShooting(c) ==
    /\ ~shooting.parsed
    /\ Len(shooting_str) < MaxShootingLen
    /\ shooting_str' = Append(shooting_str, c)
    /\ UNCHANGED <<shooting, notShooting>>

ParseShooting ==
    /\ ~shooting.parsed
    /\ shooting' = [parsed |-> TRUE, value |-> _parse_shooting(shooting_str)]
    /\ UNCHANGED <<shooting_str, notShooting>>

ShootingIdle == shooting_str = <<>> /\ shooting = NotParsed
StartShooting == ShootingIdle

NextShooting ==
    \/ \E c \in ShootingChars : TypeShooting(c)
    \/ ParseShooting

\* str(n) of a natural number
RECURSIVE Decimal(_)
Decimal(n) ==
    LET digit == CHOOSE c \in Digits : DigitValue(c) = n % 10
    IN IF n < 10 THEN <<digit>> ELSE Append(Decimal(n \div 10), digit)

\* the miss counts a text of MaxShootingLen + 1 characters can spell
MissCounts == 0..22

\* str.startswith(prefix)
StartsWith(str, prefix) ==
    Len(prefix) <= Len(str) /\ SubSeq(str, 1, Len(prefix)) = prefix

\* the text of the first stages, each followed by "+"
RECURSIVE Stages(_)
Stages(counts) ==
    IF counts = <<>> THEN <<>>
    ELSE Decimal(Head(counts)) \o <<"+">> \o Stages(Tail(counts))

\* C12: for a shooting string of four miss counts a+b+c+d separated by "+",
\* _parse_shooting returns total_misses = a+b+c+d, pattern = [a, b, c, d],
\* prone = a+b and standing = c+d.
C12_ParseFourStages ==
    shooting.parsed =>
        \A a \in MissCounts : StartsWith(shooting_str, Stages(<<a>>)) =>
        \A b \in MissCounts : StartsWith(shooting_str, Stages(<<a, b>>)) =>
        \A c \in MissCounts : StartsWith(shooting_str, Stages(<<a, b, c>>)) =>
        \A d \in MissCounts : shooting_str = Stages(<<a, b, c>>) \o Decimal(d) =>
            shooting.value = [total_misses |-> a + b + c + d,
                              pattern |-> <<a, b, c, d>>,
                              prone |-> a + b,
                              standing |-> c + d]

\* "0+1+0+2" was parsed: 3 misses, 1 prone and 2 standing
C12_Witness ==
    /\ shooting.parsed
    /\ shooting_str = <<"0", "+", "1", "+", "0", "+", "2">>
    /\ shooting.value = [total_misses |-> 3, pattern |-> <<0, 1, 0, 2>>,
                         prone |-> 1, standing |-> 2]

(***************************************************************************)
(* consistency_score and recent_form of get_athlete_performance            *)
(* (IBUFullService and DataService)                                        *)
(***************************************************************************)

\* the most finished ranks of one season
MaxSeasonRanks == 9
\* the ranks an athlete finishes with: two neighbours and one far away
FormRanks == {1, 2, 101}

\* a float as an exact fraction num / den, den > 0
Ratio(num, den) == [num |-> num, den |-> den]

NoForm == [fn |-> "none"]

RECURSIVE SumSquares(_)
SumSquares(s) == IF s = <<>> THEN 0 ELSE Head(s) * Head(s) + SumSquares(Tail(s))

\* the sample variance of rs is VarianceNum(rs) / VarianceDen(rs)
VarianceNum(rs) == Len(rs) * SumSquares(rs) - SumSeq(rs) * SumSeq(rs)
VarianceDen(rs) == Len(rs) * (Len(rs) - 1)

\* floor(k * variance), without leaving 32 bits
ScaledVariance(rs, k) ==
    (VarianceNum(rs) \div VarianceDen(rs)) * k
        + ((VarianceNum(rs) % VarianceDen(rs)) * k) \div VarianceDen(rs)

\* floor(m * statistics.stdev(rs)) = floor(m * Series.std()), both with n - 1
stdev_times(rs, m) == Isqrt(ScaledVariance(rs, m * m))

\* round(x, 1) of x = num / den (den > 0), in tenths: the nearest tenth, and at an
\* exact tie either neighbour (the binary float that stands for x decides)
round_1(num, den) ==
    LET lo == (10 * num) \div den
        rest == (10 * num) % den
    IN IF 2 * rest < den THEN {lo}
       ELSE IF 2 * rest > den THEN {lo + 1}
       ELSE {lo, lo + 1}

\* IBUFullService: round(100 - stdev * 2, 1) without min(..., 100), in tenths
full_consistency_unclamped(rs) ==
    IF Len(rs) > 1
    THEN Ratio(1000 - (stdev_times(rs, 40) + 1) \div 2, 10)
    ELSE Ratio(500, 10)

\* IBUFullService: round(100 - min(stdev * 2, 100), 1) if len(ranks) > 1 else 50,
\* in tenths; round(20 * stdev) is floor((floor(40 * stdev) + 1) / 2), and it is
\* never at a tie for fewer than 64 ranks
full_consistency(rs) ==
    IF Len(rs) > 1
    THEN Ratio(1000 - Min2((stdev_times(rs, 40) + 1) \div 2, 1000), 10)
    ELSE Ratio(500, 10)

\* ranks[:5]
first_five(rs) == SubSeq(rs, 1, 5)
\* ranks.tail(5)
tail_five(rs) == SubSeq(rs, Len(rs) - 4, Len(rs))

\* (season_avg - recent_avg) * 2 as an exact fraction
form_difference(rs, recent) ==
    Ratio(2 * (5 * SumSeq(rs) - Len(rs) * SumSeq(recent)), 5 * Len(rs))

\* IBUFullService: the values round(recent_form, 1) can take, in tenths
full_recent_form(rs) ==
    IF Len(rs) >= 5
    THEN LET raw == form_difference(rs, first_five(rs))
         IN {Ratio(t, 10) : t \in round_1(raw.num, raw.den)}
    ELSE {Ratio(0, 10)}

\* DataService: 100 - min(ranks.std() * 2, 100) if len(ranks) > 1 else 50, cut to
\* hundredths
data_consistency(rs) ==
    IF Len(rs) > 1
    THEN Ratio(10000 - Min2(stdev_times(rs, 200), 10000), 100)
    ELSE Ratio(5000, 100)

\* DataService: float(recent_form), not rounded
data_recent_form(rs) ==
    IF Len(rs) >= 5 THEN form_difference(rs, tail_five(rs)) ELSE Ratio(0, 1)

\* one more finished race of the season
AddRank(r) ==
    /\ form = NoForm
    /\ Len(season_ranks) < MaxSeasonRanks
    /\ season_ranks' = Append(season_ranks, r)
    /\ UNCHANGED <<form, notForm>>

\* IBUFullService.get_athlete_performance, from the ranks on
FullPerformance ==
    /\ form = NoForm
    /\ \/ /\ season_ranks = <<>>
          /\ form' = [fn |-> "IBUFullService", returned |-> "None"]
       \/ /\ season_ranks # <<>>
          /\ \E recent_form \in full_recent_form(season_ranks) :
                form' = [fn |-> "IBUFullService", returned |-> "dict",
                         consistency_score |-> full_consistency(season_ranks),
                         recent_form |-> recent_form]
    /\ UNCHANGED <<season_ranks, notForm>>

\* DataService.get_athlete_performance, from the ranks on (an athlete with rows)
DataPerformance ==
    /\ form = NoForm
    /\ form' = [fn |-> "DataService", returned |-> "dict",
                consistency_score |-> data_consistency(season_ranks),
                recent_form |-> data_recent_form(season_ranks)]
    /\ UNCHANGED <<season_ranks, notForm>>

FormIdle == season_ranks = <<>> /\ form = NoForm
StartForm == FormIdle

NextForm ==
    \/ \E r \in FormRanks : AddRank(r)
    \/ FullPerformance
    \/ DataPerformance

\* the five ranks the service takes for the recent ones
RecentRanks == IF form.fn = "DataService" THEN tail_five(season_ranks) ELSE first_five(season_ranks)

Returned == form.fn # "none" /\ form.returned = "dict"

\* C13: with at least 5 finished ranks whose last 5 average strictly lower than the
\* average of all the season's ranks, the recent_form returned by
\* get_athlete_performance is strictly greater than 0.
C13_ImprovingFormIsPositive ==
    (/\ Returned
     /\ Len(season_ranks) >= 5
     /\ Len(season_ranks) * SumSeq(RecentRanks) < 5 * SumSeq(season_ranks))
        => form.recent_form.num > 0

AllEqual(rs) == \A i, j \in 1..Len(rs) : rs[i] = rs[j]
\* stdev >= 50, as variance >= 2500
StdevAtLeast50(rs) == VarianceNum(rs) >= 2500 * VarianceDen(rs)

\* C14: for at least two finished ranks the consistency score is in [0, 100]; it is
\* exactly 100 when all ranks are equal and exactly 0 when their standard deviation
\* is 50 or more.
C14_ConsistencyInRange ==
    (Returned /\ Len(season_ranks) >= 2) =>
        /\ form.consistency_score.num >= 0
        /\ form.consistency_score.num <= 100 * form.consistency_score.den
        /\ AllEqual(season_ranks) => form.consistency_score.num = 100 * form.consistency_score.den
        /\ StdevAtLeast50(season_ranks) => form.consistency_score.num = 0

\* a season of ranks 1 and 101, whose deviation is above 50, scored 0 by
\* IBUFullService
C14_Witness ==
    /\ Returned
    /\ form.fn = "IBUFullService"
    /\ season_ranks = <<1, 101, 1, 101>>
    /\ form.consistency_score.num = 0

(***************************************************************************)
(* The memoized lookups: IBUFullService.get_athletes, DataService          *)
(* .get_athletes and IBUDataService.get_athlete_performance, each behind   *)
(* functools.lru_cache(maxsize=128)                                        *)
(***************************************************************************)

\* the most other argument combinations looked up in one process life
MaxLookups == 129

\* the watched argument combination; the others are 1, 2, ...
Watched == 0

\* what the undecorated method returns: the watched combination's answer follows
\* the data source, the others have a fixed answer
Compute(key, held) == IF key = Watched THEN held ELSE 0

NoAnswer == [key |-> -1]
NotServed == [served |-> FALSE, others |-> 0]

\* a call of the decorated method
Lookup(key) ==
    \E i \in {CacheIndex(memo, key)} :
    \E value \in {IF i # 0 THEN memo[i].value ELSE Compute(key, source)} :
        /\ memo' = CacheAfter(memo, key, value)
        /\ answer' = [key |-> key, value |-> value, consulted |-> (i = 0),
                      repeat |-> (key = Watched /\ watch.served),
                      previous |-> IF key = Watched /\ watch.served THEN watch.value ELSE value,
                      others |-> watch.others]
        /\ watch' = IF key = Watched
                    THEN [served |-> TRUE, value |-> value, others |-> 0]
                    ELSE [watch EXCEPT !.others = @ + 1]

LookupWatched ==
    /\ Lookup(Watched)
    /\ UNCHANGED <<source, lookups, notMemo>>

\* a call with an argument combination not used before
LookupOther ==
    /\ lookups < MaxLookups
    /\ Lookup(lookups + 1)
    /\ lookups' = lookups + 1
    /\ UNCHANGED <<source, notMemo>>

\* the data source changes what it holds for the watched combination
SourceChanges ==
    /\ source' = 1 - source
    /\ UNCHANGED <<memo, lookups, answer, watch, notMemo>>

\* the server process restarts: the memo starts empty
MemoRestart ==
    /\ memo # <<>>
    /\ memo' = <<>>
    /\ lookups' = 0
    /\ answer' = NoAnswer
    /\ watch' = NotServed
    /\ UNCHANGED <<source, notMemo>>

MemoIdle ==
    /\ memo = <<>>
    /\ source = 0
    /\ lookups = 0
    /\ answer = NoAnswer
    /\ watch = NotServed

StartMemo == MemoIdle

NextMemo == LookupWatched \/ LookupOther \/ SourceChanges \/ MemoRestart

\* C15: once a memoized lookup has returned a value for an argument combination,
\* every later call with the same arguments in the same process returns that value
\* without consulting the data source, however many other combinations are looked up
\* in between.
C15_MemoizedUntilRestart ==
    (answer.key = Watched /\ answer.repeat) =>
        /\ ~answer.consulted
        /\ answer.value = answer.previous

\* C15, amended: ... as long as fewer than 128 other argument combinations were
\* looked up since the previous call with the same arguments (the memo holds the 128
\* most recently used combinations).
C15_MemoizedWhileRecent ==
    (answer.key = Watched /\ answer.repeat /\ answer.others < lru_maxsize) =>
        /\ ~answer.consulted
        /\ answer.value = answer.previous

\* the watched combination was called again after 127 others and a change of the
\* source, and got the memoized value
C15_Witness ==
    /\ answer.key = Watched
    /\ answer.repeat
    /\ answer.others = lru_maxsize - 1
    /\ ~answer.consulted
    /\ answer.value # source

(***************************************************************************)
(* The ingestion CLI (load_data.py main)                                   *)
(***************************************************************************)

\* config['seasons_to_track']
seasons_to_track == <<"2324", "2425">>

\* biathlonresults.events(season_id, level=1): one season has six events, one of
\* the other's has no EventId
events(season_id) ==
    IF season_id = "2324"
    THEN << [EventId |-> "E1"], [EventId |-> "E2"], [EventId |-> "E3"],
            [EventId |-> "E4"], [EventId |-> "E5"], [EventId |-> "E6"] >>
    ELSE << [EventId |-> ""], [EventId |-> "E7"] >>

\* biathlonresults.competitions(event_id): a competition may have no RaceId
competitions(event_id) ==
    CASE event_id = "E1" -> << [RaceId |-> "R1"], [RaceId |-> "R2"] >>
      [] event_id = "E2" -> << [RaceId |-> "R3"] >>
      [] event_id = "E3" -> << >>
      [] event_id = "E4" -> << [RaceId |-> ""], [RaceId |-> "R4"] >>
      [] event_id = "E5" -> << [RaceId |-> "R5"] >>
      [] event_id = "E6" -> << [RaceId |-> "R6"] >>
      [] event_id = "E7" -> << [RaceId |-> "R7"], [RaceId |-> "R8"] >>

RaceIdsOfAuthority == {"R1", "R2", "R3", "R4", "R5", "R6", "R7", "R8"}

\* for comp in competitions: if race_id := comp.get("RaceId")
RECURSIVE CompetitionRaces(_)
CompetitionRaces(comps) ==
    IF comps = <<>> THEN <<>>
    ELSE IF Head(comps).RaceId # "" THEN <<Head(comps).RaceId>> \o CompetitionRaces(Tail(comps))
    ELSE CompetitionRaces(Tail(comps))

\* for event in events[:5]: if event_id := event.get("EventId")
RECURSIVE EventRaces(_)
EventRaces(evs) ==
    IF evs = <<>> THEN <<>>
    ELSE IF Head(evs).EventId # ""
         THEN CompetitionRaces(competitions(Head(evs).EventId)) \o EventRaces(Tail(evs))
         ELSE EventRaces(Tail(evs))

\* for season_id in config['seasons_to_track']
RECURSIVE SeasonRaces(_)
SeasonRaces(seasons) ==
    IF seasons = <<>> THEN <<>>
    ELSE EventRaces(Take(events(Head(seasons)), 5)) \o SeasonRaces(Tail(seasons))

\* the downloads main makes when nothing stops it, in order
BatchRaces == SeasonRaces(seasons_to_track)

\* data.scraper.download_race_data(race_id): a download that fails raises
download_race_data(race_id, failing) == IF race_id \in failing THEN "raises" ELSE "returns"

NotStarted == [status |-> "not started", attempted |-> <<>>]

\* main(), up to its first download
StartMain ==
    /\ run.status = "not started"
    /\ run' = [run EXCEPT !.status = "running"]
    /\ UNCHANGED <<failing_races, notIngest>>

\* download_race_data(race_id) of the next competition; main has no handler, so an
\* exception ends the run
DownloadNext ==
    /\ run.status = "running"
    /\ Len(run.attempted) < Len(BatchRaces)
    /\ \E race_id \in {BatchRaces[Len(run.attempted) + 1]} :
          run' = [status |-> IF download_race_data(race_id, failing_races) = "raises"
                             THEN "raised" ELSE "running",
                  attempted |-> Append(run.attempted, race_id)]
    /\ UNCHANGED <<failing_races, notIngest>>

\* print("Data loading complete!")
Complete ==
    /\ run.status = "running"
    /\ Len(run.attempted) = Len(BatchRaces)
    /\ run' = [run EXCEPT !.status = "complete"]
    /\ UNCHANGED <<failing_races, notIngest>>

IngestIdle == failing_races = {} /\ run = NotStarted
StartIngest == failing_races \in SUBSET RaceIdsOfAuthority /\ run = NotStarted

NextIngest == StartMain \/ DownloadNext \/ Complete

\* C16: a failure of the download of one race does not stop the batch: every
\* remaining competition of every selected event of every configured season is still
\* attempted, and the run reaches its completion message.
C16_FailureDoesNotStopBatch ==
    run.status \in {"raised", "complete"} =>
        /\ run.status = "complete"
        /\ run.attempted = BatchRaces

(***************************************************************************)
(* The current season: IBUFullService.__init__ and its season filter,      *)
(* IBUDataService._get_current_season                                      *)
(***************************************************************************)

\* the years the clock runs through after 2024
MaxYears == 2

Clocks == [year : 2024..(2024 + MaxYears), month : 1..12]

\* a Python value and its text: a str, or an int with its decimal digits
PyStr(text) == [type |-> "str", text |-> text]
PyInt(n) == [type |-> "int", text |-> Decimal(n)]

NoAdapter == [class |-> "none"]

\* IBUDataService._get_current_season
_get_current_season(now) == IF now.month >= 11 THEN now.year ELSE now.year - 1

\* IBUFullService.__init__: self.current_season = "2425"
ConstructFull ==
    /\ adapter = NoAdapter
    /\ adapter' = [class |-> "IBUFullService", at |-> clock,
                   current_season |-> PyStr(<<"2", "4", "2", "5">>),
                   selected |-> PyStr(<<>>)]
    /\ UNCHANGED <<clock, notSeason>>

\* IBUDataService.__init__: self.current_season = self._get_current_season()
ConstructIBU ==
    /\ adapter = NoAdapter
    /\ adapter' = [class |-> "IBUDataService", at |-> clock,
                   current_season |-> PyInt(_get_current_season(clock)),
                   selected |-> PyStr(<<>>)]
    /\ UNCHANGED <<clock, notSeason>>

\* IBUFullService.get_athlete_performance: r.get("Season") == "24/25"
FullSeasonFilter ==
    /\ adapter.class = "IBUFullService"
    /\ adapter' = [adapter EXCEPT !.selected = PyStr(<<"2", "4", "/", "2", "5">>)]
    /\ UNCHANGED <<clock, notSeason>>

\* IBUDataService.get_athlete_performance:
\* biathlonresults.athlete_results(ibu_id, self.current_season)
IBUSeasonQuery ==
    /\ adapter.class = "IBUDataService"
    /\ adapter' = [adapter EXCEPT !.selected = adapter.current_season]
    /\ UNCHANGED <<clock, notSeason>>

\* a month passes
MonthPasses ==
    /\ clock # [year |-> 2024 + MaxYears, month |-> 12]
    /\ clock' = IF clock.month = 12 THEN [year |-> clock.year + 1, month |-> 1]
                ELSE [clock EXCEPT !.month = @ + 1]
    /\ UNCHANGED <<adapter, notSeason>>

SeasonIdle == clock = [year |-> 2024, month |-> 1] /\ adapter = NoAdapter
StartSeason == clock \in Clocks /\ adapter = NoAdapter

NextSeason == ConstructFull \/ ConstructIBU \/ FullSeasonFilter \/ IBUSeasonQuery \/ MonthPasses

\* two decimal digits of n
TwoDigits(n) == <<Decimal((n % 100) \div 10)[1], Decimal(n % 10)[1]>>

\* the identifier of the season running at a date: "2425" throughout 2024/25
SeasonIdentifier(now) ==
    LET y == IF now.month >= 11 THEN now.year ELSE now.year - 1
    IN PyStr(TwoDigits(y) \o TwoDigits(y + 1))

\* C17: the current-season identifier of the adapter is computed from the wall
\* clock (the two-digit year y followed by the two-digit y+1, y being the current
\* year from November on and the previous year before), and the season filter
\* applied to an athlete's results selects that same season.
C17_SeasonFromWallClock ==
    adapter.class # "none" =>
        /\ adapter.current_season = SeasonIdentifier(adapter.at)
        /\ adapter.selected.text # <<>> =>
              RemoveChar(adapter.selected.text, "/") = SeasonIdentifier(adapter.at).text

(***************************************************************************)
(* create_twin observed: two calls compared                                *)
(***************************************************************************)

\* the world ranks of the summaries: one that drives vo2_max to its upper clamp,
\* one that drives it to its lower clamp
CreateRanks == {0 - 20, 100}

NoEngine == [twins |-> <<>>, heap |-> EmptyHeap]
NoneCreated == [calls |-> 0]
NoRace == [status |-> "none"]

\* a twin as == compares it: its fields, with the two dicts by content
TwinValue(h, ref) ==
    [fields |-> [h.twin[ref] EXCEPT !.hr_zones = 0, !.shooting_accuracy_curve = 0],
     hr_zones |-> h.hr_zones[h.twin[ref].hr_zones],
     shooting_accuracy_curve |-> h.curve[h.twin[ref].shooting_accuracy_curve]]

\* create_twin({'id': athlete_id, 'world_rank': world_rank})
ObservedCreateTwin(athlete_id, world_rank) ==
    \E built \in {Construct(engine.heap, NewTwin(athlete_id, world_rank, generator))} :
    \E kept \in {Collected([a \in DOMAIN engine.twins \cup {athlete_id} |->
                                IF a = athlete_id THEN built.ref ELSE engine.twins[a]],
                            built.heap)} :
    \E call \in {[athlete_id |-> athlete_id, world_rank |-> world_rank,
                  rng |-> generator,
                  twin |-> TwinValue(kept.heap, kept.twins[athlete_id])]} :
       /\ engine' = [twins |-> kept.twins, heap |-> kept.heap]
       /\ generator' = rng_advance(generator, 3)
       /\ created' = IF created.calls = 0
                     THEN [calls |-> 1, first |-> call, last |-> call]
                     ELSE [calls |-> 2, first |-> created.first, last |-> call]
       /\ UNCHANGED <<simulation, notSim>>

ObserveCreate ==
    \E i \in 1..Len(TwinAthletes), world_rank \in CreateRanks :
        ObservedCreateTwin(TwinAthletes[i], world_rank)

\* the process is started again: an empty engine, the generator in any state
EngineRestart ==
    /\ engine # NoEngine
    /\ engine' = NoEngine
    /\ generator' \in 0..(RngModulus - 1)
    /\ UNCHANGED <<created, simulation, notSim>>

SimIdle ==
    /\ generator = 0
    /\ engine = NoEngine
    /\ created = NoneCreated
    /\ simulation = NoRace

StartCreate ==
    /\ generator \in 0..(RngModulus - 1)
    /\ engine = NoEngine
    /\ created = NoneCreated
    /\ simulation = NoRace

NextCreate == ObserveCreate \/ EngineRestart

MaxRaceLaps == 4

\* the world ranks of the twins raced; below -40 the fatigue accumulation rate
\* create_twin computes is negative
RaceRanks == {0 - 100, 30, 100}
RaceTypes == {"sprint", "individual", "pursuit", "mass_start"}

\* the strategy argument: None, or a dict from lap to target intensity (an empty
\* one, one that asks five times the maximum of every lap, one with a negative
\* intensity for the first lap)
NoStrategy == [given |-> FALSE]
Strategy(intensities) == [given |-> TRUE, intensities |-> intensities]
Strategies ==
    {NoStrategy, Strategy(<<>>), Strategy([lap \in 1..(MaxRaceLaps + 1) |-> 5 * Scale]),
     Strategy(<<0 - Scale>>)}

\* RaceSimulation(race_type, distance=7.5, laps, temperature=-5, altitude=500,
\* wind_speed=2)
RaceOver(race_type, laps) ==
    [race_type |-> race_type, distance |-> 7500, laps |-> laps,
     temperature |-> 0 - 5, altitude |-> 500, wind_speed |-> 2,
     start_position |-> 1, competitors |-> 30]

\* simulate_race(twin, race, strategy) up to its loop, for a twin create_twin has
\* just built
BeginRace(world_rank, race_type, laps, strategy) ==
    /\ simulation = NoRace
    /\ \E built \in {Construct(EmptyHeap, NewTwin(TwinAthletes[1], world_rank, generator))} :
       \E twin \in {built.heap.twin[built.ref]} :
       \E race \in {RaceOver(race_type, laps)} :
          simulation' =
             [status |-> "running",
              twin |-> twin,
              curves |-> built.heap.curve,
              race |-> race,
              given |-> strategy,
              strategy |-> IF strategy.given THEN strategy.intensities
                           ELSE get_optimal_strategy(twin, race),
              lap |-> 1,
              state |-> race_state(twin, race)]
    /\ generator' = rng_advance(generator, 3)
    /\ UNCHANGED <<engine, created, notSim>>

StartARace ==
    \E world_rank \in RaceRanks, race_type \in RaceTypes, laps \in 1..MaxRaceLaps,
       strategy \in Strategies :
        BeginRace(world_rank, race_type, laps, strategy)

\* one pass of for lap in range(1, race.laps + 1)
RaceIteration ==
    /\ simulation.status = "running"
    /\ simulation.lap <= simulation.race.laps
    /\ \E pass \in {race_iteration(simulation.twin, simulation.curves, simulation.race,
                                   simulation.strategy, simulation.state,
                                   simulation.lap, generator)} :
          /\ simulation' =
                IF pass.outcome.raised
                THEN [simulation EXCEPT !.status = "raised"]
                ELSE [simulation EXCEPT !.state = pass.outcome.value, !.lap = @ + 1]
          /\ generator' = pass.rng
    /\ UNCHANGED <<engine, created, notSim>>

\* the result dict after the loop
EndRace ==
    /\ simulation.status = "running"
    /\ simulation.lap > simulation.race.laps
    /\ simulation' = [status |-> "returned",
                      twin |-> simulation.twin,
                      race |-> simulation.race,
                      given |-> simulation.given,
                      state |-> simulation.state,
                      result |-> race_result(simulation.twin, simulation.race,
                                             simulation.state)]
    /\ UNCHANGED <<generator, engine, created, notSim>>

StartRace ==
    /\ generator \in 0..(RngModulus - 1)
    /\ engine = NoEngine
    /\ created = NoneCreated
    /\ simulation = NoRace

NextRace == StartARace \/ RaceIteration \/ EndRace

\* C19: a simulate_race run over L >= 1 laps produces exactly L ski segments and
\* L - 1 shooting segments in strict alternation, beginning and ending with a ski
\* segment; each bout fires exactly 5 shots, the bout after lap k is prone when
\* k <= 2 and standing otherwise, and 0 <= total_misses <= 5 * (L - 1).
C19_SegmentsAlternate ==
    simulation.status = "returned" =>
        LET laps == simulation.race.laps
            segments == simulation.result.segments
        IN /\ Len(segments) = 2 * laps - 1
           /\ \A i \in 1..Len(segments) :
                IF i % 2 = 1
                THEN segments[i].type = "ski" /\ segments[i].lap = (i + 1) \div 2
                ELSE /\ segments[i].type = "shooting"
                     /\ Len(segments[i].pattern) = 5
                     /\ segments[i].hits + segments[i].misses = 5
                     /\ segments[i].position = IF i \div 2 <= 2 THEN "prone" ELSE "standing"
           /\ simulation.state.shots_fired = 5 * (laps - 1)
           /\ simulation.result.total_misses >= 0
           /\ simulation.result.total_misses <= 5 * (laps - 1)

\* a race of four laps returned, its third bout standing, with a miss
C19_Witness ==
    /\ simulation.status = "returned"
    /\ simulation.race.laps = 4
    /\ simulation.result.segments[6].position = "standing"
    /\ simulation.result.segments[2].position = "prone"
    /\ simulation.result.total_misses > 0

\* the fatigue of the state dict stays in [0, 1] and does not decrease
FatigueStep ==
    /\ simulation'.state.fatigue >= simulation.state.fatigue
    /\ simulation'.state.fatigue >= 0
    /\ simulation'.state.fatigue <= Scale

\* C20: during simulate_race the fatigue starts at 0, never decreases from one lap
\* to the next and never exceeds 1, so that the reported fatigue_level is in [0, 1],
\* for every twin created by create_twin and every strategy.
C20_FatigueMonotone ==
    [][/\ (simulation.status = "none" /\ simulation'.status = "running")
            => simulation'.state.fatigue = 0
       /\ (simulation.status = "running" /\ simulation'.status = "running") => FatigueStep
       /\ simulation'.status = "returned" =>
            /\ simulation'.result.fatigue_level >= 0
            /\ simulation'.result.fatigue_level <= Scale]_vars

\* the twin accumulates fatigue and the strategy asks no negative intensity
SaneRace ==
    /\ simulation'.twin.fatigue_accumulation_rate >= 0
    /\ simulation'.given.given =>
          \A lap \in DOMAIN simulation'.given.intensities :
              simulation'.given.intensities[lap] >= 0

\* C20, amended: ... for every twin whose fatigue_accumulation_rate is not negative
\* (create_twin from a world rank of -40 or more) and every strategy without a
\* negative intensity.
C20_FatigueMonotoneWhenSane ==
    [][(simulation'.status # "none" /\ SaneRace) =>
        /\ (simulation.status = "none" /\ simulation'.status = "running")
             => simulation'.state.fatigue = 0
        /\ (simulation.status = "running" /\ simulation'.status = "running") => FatigueStep
        /\ simulation'.status = "returned" =>
             /\ simulation'.result.fatigue_level >= 0
             /\ simulation'.result.fatigue_level <= Scale]_vars

\* a race under a strategy of five times the maximum returned with the fatigue
\* at its cap
C20_Witness ==
    /\ simulation.status = "returned"
    /\ simulation.given.given
    /\ simulation.given.intensities # <<>>
    /\ simulation.twin.fatigue_accumulation_rate >= 0
    /\ simulation.race.laps >= 2
    /\ simulation.result.fatigue_level = Scale

(***************************************************************************)
(* The final position and the pacing of a simulated race                   *)
(***************************************************************************)

\* the gender of the athlete a twin stands for: neither PhysiologicalModel nor
\* RaceSimulation has a field for it, and simulate_race is called alike for both
Genders == {"M", "W"}

\* the times dict of get_winning_time, by race type and gender
times(race_type, gender) ==
    CASE race_type = "sprint" -> IF gender = "M" THEN 1320 ELSE 1200
      [] race_type = "pursuit" -> IF gender = "M" THEN 1980 ELSE 1800
      [] race_type = "individual" -> IF gender = "M" THEN 2880 ELSE 2400
      [] race_type = "mass_start" -> IF gender = "M" THEN 2100 ELSE 1920

LapFactors(race_type, lap, laps) ==
    CASE race_type = "sprint" ->
            (IF lap = 1 THEN {95} ELSE {}) \cup (IF lap = laps THEN {105} ELSE {})
            \cup (IF lap # 1 /\ lap # laps THEN {100} ELSE {})
      [] race_type = "individual" -> {90}
      [] OTHER -> IF lap <= 2 THEN {92} ELSE {98}

\* the strategy simulate_race uses when none is given
DefaultedStrategy ==
    /\ simulation.status = "running"
    /\ ~simulation.given.given

\* C22: when no strategy is supplied the per-lap target intensity has an entry for
\* every lap 1..L and, for every L >= 1, is: sprint 0.95 x lactate threshold on lap
\* 1, 1.05 x on the final lap, 1.0 x on every other lap; individual 0.9 x on every
\* lap; pursuit and mass start 0.92 x on laps 1 and 2, 0.98 x on every later lap.
C22_OptimalStrategy ==
    DefaultedStrategy =>
        /\ DOMAIN simulation.strategy = 1..simulation.race.laps
        /\ \A lap \in 1..simulation.race.laps :
             \A factor \in LapFactors(simulation.race.race_type, lap, simulation.race.laps) :
                simulation.strategy[lap] = (simulation.twin.lactate_threshold * factor) \div 100

\* C22, amended: ... sprint 0.95 x on lap 1 (also when lap 1 is the only lap), 1.05 x
\* on the final lap of a sprint of two laps or more, 1.0 x on every other lap; ...
C22_OptimalStrategyFirstLapWins ==
    DefaultedStrategy =>
        /\ DOMAIN simulation.strategy = 1..simulation.race.laps
        /\ \A lap \in 1..simulation.race.laps :
             \A factor \in LapFactors(simulation.race.race_type, lap, simulation.race.laps) :
                (simulation.race.race_type = "sprint" /\ lap = 1 /\ factor = 105)
                \/ simulation.strategy[lap] = (simulation.twin.lactate_threshold * factor) \div 100

\* a sprint of one lap simulated without a strategy: its lap is paced at 0.95 x
C22_Witness ==
    /\ DefaultedStrategy
    /\ simulation.race.race_type = "sprint"
    /\ simulation.race.laps = 1
    /\ simulation.strategy = <<(simulation.twin.lactate_threshold * 95) \div 100>>
    /\ simulation.strategy[1] < simulation.twin.lactate_threshold

(***************************************************************************)
(* RealAnalyticsService.generate_training_recommendations                  *)
(***************************************************************************)

\* a value that may be None
Some(value) == [none |-> FALSE, value |-> value]

\* shooting['total_accuracy'], either side of 75 and of 80 (percentages and scores
\* are held in thousandths)
TotalAccuracies == {75 * Scale - 1, 75 * Scale, 80 * Scale - 1, 80 * Scale}
\* (prone_accuracy, standing_accuracy): standing just more than 10 below, and
\* exactly 10 below
ProneStanding == {<<90 * Scale, 80 * Scale - 1>>, <<90 * Scale, 80 * Scale>>}
ConsistencyScores == {60 * Scale - 1, 60 * Scale}
RecentForms == {0 - 5 * Scale - 1, 0 - 5 * Scale}
DnfRates == {10 * Scale, 10 * Scale + 1}
\* the ranks of the athlete in the course time file
CourseRanks == {40, 50, 51, 100, 120}
MaxCourseRows == 2
CourseRankLists == UNION {[1..n -> CourseRanks] : n \in 0..MaxCourseRows}

\* _calculate_ski_stats: ski_speed_percentile = max(0, 100 - mean(course ranks)),
\* None without a course time file or without a rank of the athlete in it
_calculate_ski_stats(course_time_df) ==
    IF course_time_df.none \/ course_time_df.value = <<>>
    THEN [avg_course_time |-> None, avg_range_time |-> None, ski_speed_percentile |-> None]
    ELSE LET avg_course_rank == (SumSeq(course_time_df.value) * Scale)
                                   \div Len(course_time_df.value)
         IN [avg_course_time |-> None, avg_range_time |-> None,
             avg_course_rank |-> avg_course_rank,
             ski_speed_percentile |-> Some(Max2(0, 100 * Scale - avg_course_rank))]

\* the part of DataService.get_athlete_performance the recommendations read;
\* None for an athlete without results
PerformanceOf(data) ==
    IF ~data.known THEN None
    ELSE [shooting |-> [total_accuracy |-> data.total_accuracy,
                        prone_accuracy |-> data.prone_standing[1],
                        standing_accuracy |-> data.prone_standing[2]],
          ski_stats |-> _calculate_ski_stats(data.course_time_df),
          consistency_score |-> data.consistency_score,
          recent_form |-> data.recent_form,
          dnf_rate |-> data.dnf_rate]

\* TrainingRecommendation(priority, area, ...)
TrainingRecommendation(priority, area) == [priority |-> priority, area |-> area]

\* Python's truth value of a float or None
TruthyNumber(number) == ~number.none /\ number.value # 0

\* the ski speed recommendation, when the percentile is one to act on
ski_speed_recommendation(ski_stats) ==
    IF TruthyNumber(ski_stats.ski_speed_percentile)
    THEN IF ski_stats.ski_speed_percentile.value < 50 * Scale
         THEN <<TrainingRecommendation("MEDIUM", "Ski Speed")>>
         ELSE <<>>
    ELSE <<>>

\* generate_training_recommendations: the list of recommendations, in the order of
\* the tests
generate_training_recommendations(perf) ==
    IF perf = None THEN <<>>
    ELSE (IF perf.shooting.total_accuracy < 80 * Scale
          THEN <<TrainingRecommendation(
                    IF perf.shooting.total_accuracy < 75 * Scale THEN "HIGH" ELSE "MEDIUM",
                    "Shooting Accuracy")>>
          ELSE <<>>)
      \o (IF perf.shooting.standing_accuracy < perf.shooting.prone_accuracy - 10 * Scale
          THEN <<TrainingRecommendation("HIGH", "Standing Shooting Stability")>>
          ELSE <<>>)
      \o (IF perf.consistency_score < 60 * Scale
          THEN <<TrainingRecommendation("MEDIUM", "Performance Consistency")>>
          ELSE <<>>)
      \o (IF perf.recent_form < 0 - 5 * Scale
          THEN <<TrainingRecommendation("HIGH", "Form Recovery")>>
          ELSE <<>>)
      \o (IF perf.dnf_rate > 10 * Scale
          THEN <<TrainingRecommendation("MEDIUM", "Race Completion")>>
          ELSE <<>>)
      \o ski_speed_recommendation(perf.ski_stats)

NotAsked == [asked |-> FALSE]

\* a call of generate_training_recommendations(athlete_id)
GenerateTrainingRecommendations ==
    /\ ~advice.asked
    /\ advice' = [asked |-> TRUE,
                  recommendations |-> generate_training_recommendations(PerformanceOf(csv_data))]
    /\ UNCHANGED <<csv_data, notAdvice>>

\* the next call
NextCall ==
    /\ advice.asked
    /\ advice' = NotAsked
    /\ UNCHANGED <<csv_data, notAdvice>>

AdviceIdle ==
    /\ csv_data = [known |-> FALSE]
    /\ advice = NotAsked

StartAdvice ==
    /\ csv_data \in
          {[known |-> FALSE]} \cup
          [known : {TRUE}, total_accuracy : TotalAccuracies, prone_standing : ProneStanding,
           consistency_score : ConsistencyScores, recent_form : RecentForms,
           dnf_rate : DnfRates, course_time_df : {None} \cup {Some(course) : course \in CourseRankLists}]
    /\ advice = NotAsked

NextAdvice == GenerateTrainingRecommendations \/ NextCall

\* the recommendations returned, as a set
Emitted == {advice.recommendations[i] : i \in DOMAIN advice.recommendations}

\* the rows of the threshold table that hold of the performance
RowsThatHold(perf) ==
    (IF perf.shooting.total_accuracy < 80 * Scale
     THEN {TrainingRecommendation(IF perf.shooting.total_accuracy < 75 * Scale
                                  THEN "HIGH" ELSE "MEDIUM", "Shooting Accuracy")}
     ELSE {})
    \cup (IF perf.shooting.standing_accuracy < perf.shooting.prone_accuracy - 10 * Scale
          THEN {TrainingRecommendation("HIGH", "Standing Shooting Stability")} ELSE {})
    \cup (IF perf.consistency_score < 60 * Scale
          THEN {TrainingRecommendation("MEDIUM", "Performance Consistency")} ELSE {})
    \cup (IF perf.recent_form < 0 - 5 * Scale
          THEN {TrainingRecommendation("HIGH", "Form Recovery")} ELSE {})
    \cup (IF perf.dnf_rate > 10 * Scale
          THEN {TrainingRecommendation("MEDIUM", "Race Completion")} ELSE {})
    \cup (IF ~perf.ski_stats.ski_speed_percentile.none
             /\ perf.ski_stats.ski_speed_percentile.value < 50 * Scale
          THEN {TrainingRecommendation("MEDIUM", "Ski Speed")} ELSE {})

\* C23: generate_training_recommendations emits a recommendation for exactly those
\* rows of the threshold table whose condition holds: Shooting Accuracy when total
\* accuracy < 80 (HIGH if < 75, else MEDIUM), Standing Shooting (HIGH) when standing
\* < prone - 10, Consistency (MEDIUM) when consistency < 60, Form Recovery (HIGH)
\* when recent form < -5, Race Completion (MEDIUM) when DNF rate > 10, and Ski Speed
\* (MEDIUM) whenever a ski-speed percentile is available and is < 50.
C23_RecommendationsFollowTable ==
    (advice.asked /\ csv_data.known) =>
        /\ Emitted = RowsThatHold(PerformanceOf(csv_data))
        /\ Len(advice.recommendations) = Cardinality(Emitted)

(***************************************************************************)
(* The peer rank over a team of athletes                                   *)
(***************************************************************************)

TeamAthletes == {"BTCZE1", "BTCZE2", "BTCZE3"}

\* the histories the analyses are given: none, one bout of each kind, two bouts of
\* each kind (the kind without a shot ends the analysis with an exception)
TeamHistories ==
    {<<>>} \cup {<<bout>> : bout \in BoutKinds} \cup {<<bout, bout>> : bout \in BoutKinds}

\* analyze_athlete_complete(athlete_id, race_history) for one athlete of a team
AnalyzeTeamMember(athlete_id, bouts) ==
    \E result \in {analyze_athlete_complete(czech_team_data, athlete_id, bouts)} :
        /\ shooting_bouts' = bouts
        /\ profile' = [athlete_id |-> athlete_id, outcome |-> result.outcome]
        /\ czech_team_data' = result.czech_team_data
        /\ UNCHANGED notFatigue

AnalyzeTeam ==
    \E athlete_id \in TeamAthletes, bouts \in TeamHistories :
        AnalyzeTeamMember(athlete_id, bouts)

StartTeam == FatigueIdle

NextTeam == AnalyzeTeam

\* the profile of the last analysis carries the rank of its own score among the
\* scores of the peer map
RankIsPosition ==
    LET athlete_id == profile.athlete_id
        rank == profile.outcome.value.czech_rank
        score == profile.outcome.value.fatigue_resistance_score
        peers == DOMAIN czech_team_data
    IN /\ athlete_id \in peers
       /\ czech_team_data[athlete_id] = score
       /\ rank \in 1..Cardinality(peers)
       /\ rank = 1 + Cardinality({a \in peers : czech_team_data[a].v > score.v})
       /\ Cardinality({a \in peers : czech_team_data[a].v >= score.v}) >= rank

\* C24: after any sequence of fatigue analyses, the peer rank returned for an athlete
\* with score s is the 1-based position of s in the descending list of all scores
\* currently in the peer map: it lies in 1..N, equals 1 + the number of athletes with
\* a strictly greater score, the map holds exactly one score per athlete id (the
\* latest), and the lookup never fails, also when several athletes have equal scores.
C24_PeerRank ==
    [][(profile'.athlete_id # "none" /\ ~profile'.outcome.raised) =>
          /\ RankIsPosition'
          /\ DOMAIN czech_team_data' = DOMAIN czech_team_data \cup {profile'.athlete_id}
          /\ \A a \in DOMAIN czech_team_data :
                a # profile'.athlete_id => czech_team_data'[a] = czech_team_data[a]]_vars

\* three athletes in the map, the one analysed last ranked 2: one peer has a greater
\* score and one has the same
C24_Witness ==
    /\ profile.athlete_id # "none"
    /\ ~profile.outcome.raised
    /\ DOMAIN czech_team_data = TeamAthletes
    /\ profile.outcome.value.czech_rank = 2
    /\ \E a \in TeamAthletes \ {profile.athlete_id} :
          czech_team_data[a] = czech_team_data[profile.athlete_id]
    /\ \E a \in TeamAthletes :
          czech_team_data[a].v > czech_team_data[profile.athlete_id].v

(***************************************************************************)
(* POST /digital-twin/{id}/batch-scenarios                                 *)
(***************************************************************************)

\* the most scenarios of a batch
MaxBatch == 2

\* the scenarios submitted: one that runs, one whose percentage float() refuses
\* (modify_twin raises), one that sets a parameter to None (simulate_race raises)
BatchScenarios ==
    { [name |-> "technique", race_type |-> "sprint", laps |-> 2,
       modifications |-> <<[param |-> "shooting_technique", value |-> Percent(10)]>>],
      [name |-> "typo", race_type |-> "sprint", laps |-> 2,
       modifications |-> <<[param |-> "ski_efficiency", value |-> BadPercent]>>],
      [name |-> "unset", race_type |-> "individual", laps |-> 2,
       modifications |-> <<[param |-> "lactate_threshold", value |-> NoneValue]>>] }

Batches == UNION {[1..n -> BatchScenarios] : n \in 0..MaxBatch}

\* the entry of a scenario in the results list
BatchEntry(scenario, outcome) ==
    IF outcome.raised
    THEN [scenario |-> scenario.name, error |-> outcome.kind]
    ELSE [scenario |-> scenario.name,
          result |-> [time_saved |-> outcome.value.time_saved,
                      positions_gained |-> outcome.value.positions_gained,
                      shooting_improvement |-> outcome.value.shooting_improvement]]

\* a loop that gives up at the first scenario that fails
RECURSIVE batch_loop_until_error(_, _, _, _, _, _)
batch_loop_until_error(registry, h, athlete_id, scenarios, s, results) ==
    IF scenarios = <<>> THEN [heap |-> h, rng |-> s, results |-> results]
    ELSE With(run_what_if_scenario(registry, h, athlete_id, Head(scenarios), s), LAMBDA run_ :
         IF run_.outcome.raised
         THEN [heap |-> run_.heap, rng |-> run_.rng,
               results |-> Append(results, BatchEntry(Head(scenarios), run_.outcome))]
         ELSE batch_loop_until_error(registry, run_.heap, athlete_id, Tail(scenarios), run_.rng,
                         Append(results, BatchEntry(Head(scenarios), run_.outcome))))

\* for scenario in scenarios: try analyze_what_if ... except Exception
RECURSIVE batch_loop(_, _, _, _, _, _)
batch_loop(registry, h, athlete_id, scenarios, s, results) ==
    IF scenarios = <<>> THEN [heap |-> h, rng |-> s, results |-> results]
    ELSE With(run_what_if_scenario(registry, h, athlete_id, Head(scenarios), s), LAMBDA run_ :
         batch_loop(registry, run_.heap, athlete_id, Tail(scenarios), run_.rng,
                    Append(results, BatchEntry(Head(scenarios), run_.outcome))))

\* the handler batch_scenarios
BatchRequest(athlete_id, scenarios) ==
    /\ whatif = NoWhatIf
    /\ \E done \in {batch_loop(twins, heap, athlete_id, scenarios, rng_state, <<>>)} :
       \E kept \in {Collected(twins, done.heap)} :
          /\ twins' = kept.twins
          /\ heap' = kept.heap
          /\ rng_state' = done.rng
          /\ whatif' = [athlete_id |-> athlete_id, raised |-> FALSE,
                        submitted |-> scenarios,
                        status |-> 200,
                        body |-> [athlete_id |-> athlete_id,
                                  scenarios_run |-> Len(done.results),
                                  results |-> done.results]]
    /\ UNCHANGED notTwin

PostBatch ==
    \E athlete_id \in {TwinAthletes[i] : i \in 1..Len(TwinAthletes)} \cup {NoTwinAthlete},
       scenarios \in Batches :
        BatchRequest(athlete_id, scenarios)

\* the response is sent
BatchAnswered ==
    /\ whatif # NoWhatIf
    /\ whatif' = NoWhatIf
    /\ UNCHANGED <<twins, heap, rng_state, notTwin>>

StartBatch == StartTwin

NextBatch == BuildTwin \/ PostBatch \/ BatchAnswered

MaxWeeks == 2
default_weeks == 8

\* the world ranks of the registered twins: create_twin flags nothing at 0, the
\* shooting alone at 10, everything but the aerobic capacity at 17
PlanRanks == {0, 10, 17, 100}

\* goals: with or without 'weeks'
Goals == {[weeks |-> None]} \cup {[weeks |-> Some(n)] : n \in 0..MaxWeeks}

\* the weaknesses list, in the order of the tests
weaknesses_of(twin) ==
    (IF twin.vo2_max < 60 * Scale THEN <<"aerobic_capacity">> ELSE <<>>)
    \o (IF twin.shooting_technique < 850 THEN <<"shooting_technique">> ELSE <<>>)
    \o (IF twin.pressure_resistance < 750 THEN <<"mental_training">> ELSE <<>>)
    \o (IF twin.ski_efficiency < 850 THEN <<"ski_technique">> ELSE <<>>)

In(element, list) == \E i \in DOMAIN list : list[i] = element

\* the sessions list of a week
week_sessions(week, weaknesses) ==
    (IF In("aerobic_capacity", weaknesses)
     THEN <<[type |-> "Z2_ski", duration |-> 90 + week * 5, frequency |-> 3],
            [type |-> "intervals", duration |-> 60, frequency |-> 2]>>
     ELSE <<>>)
    \o (IF In("shooting_technique", weaknesses)
        THEN <<[type |-> "dry_fire", duration |-> 45, frequency |-> 5],
               [type |-> "combo_training", duration |-> 90, frequency |-> 2]>>
        ELSE <<>>)
    \o (IF In("mental_training", weaknesses)
        THEN <<[type |-> "visualization", duration |-> 20, frequency |-> 7]>>
        ELSE <<>>)

\* generate_training_plan for a registered twin; total_hours in thousandths
generate_training_plan(twin, goals) ==
    LET duration_weeks == IF goals.weeks.none THEN default_weeks ELSE goals.weeks.value
        weaknesses == weaknesses_of(twin)
    IN [athlete |-> twin.name,
        duration_weeks |-> duration_weeks,
        focus_areas |-> <<>>,
        weekly_schedule |->
            [week \in 1..duration_weeks |->
                [week |-> week, total_hours |-> 15 * Scale + week * 500,
                 sessions |-> week_sessions(week, weaknesses)]]]

NoPlan == [status |-> "none"]
NoTrainee == [registered |-> FALSE]

\* POST /{athlete_id}/optimize-training -> generate_optimal_training
GenerateTrainingPlan(goals) ==
    /\ training_plan = NoPlan
    /\ training_plan' =
          IF ~trainee.registered
          THEN [status |-> "raised", kind |-> "ValueError"]
          ELSE [status |-> "returned", plan |-> generate_training_plan(trainee.twin, goals)]
    /\ UNCHANGED <<trainee, notTraining>>

OptimizeTraining == \E goals \in Goals : GenerateTrainingPlan(goals)

\* the next request
PlanAnswered ==
    /\ training_plan # NoPlan
    /\ training_plan' = NoPlan
    /\ UNCHANGED <<trainee, notTraining>>

TrainingIdle ==
    /\ trainee = NoTrainee
    /\ training_plan = NoPlan

StartTraining ==
    /\ trainee \in
         {NoTrainee} \cup
         {[registered |-> TRUE,
           twin |-> With(Construct(EmptyHeap, NewTwin(TwinAthletes[1], world_rank, s)),
                         LAMBDA built : built.heap.twin[built.ref])] :
             world_rank \in PlanRanks, s \in 0..(RngModulus - 1)}
    /\ training_plan = NoPlan

NextTraining == OptimizeTraining \/ PlanAnswered

\* the weaknesses the fixed thresholds flag
Flagged(twin) ==
    (IF twin.vo2_max < 60 * Scale THEN {"aerobic_capacity"} ELSE {})
    \cup (IF twin.shooting_technique < 850 THEN {"shooting_technique"} ELSE {})
    \cup (IF twin.pressure_resistance < 750 THEN {"mental_training"} ELSE {})
    \cup (IF twin.ski_efficiency < 850 THEN {"ski_technique"} ELSE {})

\* the weaknesses of a list, one left out
Without(list, weakness) == SelectSeq(list, LAMBDA w : w # weakness)

\* C26: in the plan returned by generate_training_plan for a registered twin, every
\* weakness flagged by the fixed thresholds (VO2max < 60, shooting_technique < 0.85,
\* pressure_resistance < 0.75, ski_efficiency < 0.85) contributes at least one
\* session to every week of the plan, and a twin with no flagged weakness gets weeks
\* with no sessions.
C26_EveryWeaknessHasSessions ==
    training_plan.status = "returned" =>
        \A w \in DOMAIN training_plan.plan.weekly_schedule :
            LET week == training_plan.plan.weekly_schedule[w]
            IN /\ Flagged(trainee.twin) = {} => week.sessions = <<>>
               /\ \A weakness \in Flagged(trainee.twin) :
                     Len(week.sessions) >
                        Len(week_sessions(week.week, Without(weaknesses_of(trainee.twin), weakness)))

(***************************************************************************)
(* GET /analytics/athlete/{ibu_id}/vs-world                                *)
(***************************************************************************)

\* the athletes asked about: two the authority has results of, one it has none of
WorldAthletes == {"BTCZE1", "BTNOR1"}
UnknownWorldAthlete == "BTXXX0"
\* the average rank of an athlete's results (average misses and ski rank follow it)
AverageRanks == {5, 20}

\* a key a dict does not hold
Absent == [absent |-> TRUE]

\* the undecorated body of IBUDataService.get_athlete_performance: None without
\* results, else the dict (of which the fields the endpoint reads are kept)
performance_of(results, ibu_id) ==
    IF ibu_id \notin DOMAIN results THEN None
    ELSE [none |-> FALSE,
          ibu_id |-> ibu_id,
          name |-> ibu_id,
          season_stats |-> [avg_rank |-> results[ibu_id] * Scale],
          shooting |-> [avg_misses |-> (results[ibu_id] * Scale) \div 10],
          skiing |-> [avg_rank |-> (results[ibu_id] + 2) * Scale],
          direct_comparison |-> Absent]

\* the lru_cache wrapper: the dict object held for the key, computed and stored at
\* the first call (fewer keys than maxsize are ever used)
memoized(held, results, ibu_id) ==
    IF ibu_id \in DOMAIN held THEN held
    ELSE [key \in DOMAIN held \cup {ibu_id} |->
            IF key = ibu_id THEN performance_of(results, ibu_id) ELSE held[key]]

\* performance['direct_comparison'] = {...}
direct_comparison(performance, comparison) ==
    [athlete |-> comparison.name,
     rank_diff |-> performance.season_stats.avg_rank - comparison.season_stats.avg_rank,
     shooting_diff |-> performance.shooting.avg_misses - comparison.shooting.avg_misses,
     ski_diff |-> performance.skiing.avg_rank - comparison.skiing.avg_rank]

NoVsWorld == [status |-> 0]

\* the handler athlete_vs_world; the dict it returns is the object the memo holds
AthleteVsWorld(ibu_id, compare_with) ==
    \E first \in {memoized(performance_memo, authority, ibu_id)} :
       IF first[ibu_id].none
       THEN /\ performance_memo' = first
            /\ vs_world' = [status |-> 404, ibu_id |-> ibu_id, compare_with |-> compare_with]
            /\ UNCHANGED <<authority, notVsWorld>>
       ELSE IF compare_with = None
       THEN /\ performance_memo' = first
            /\ vs_world' = [status |-> 200, ibu_id |-> ibu_id, compare_with |-> compare_with,
                            body |-> first[ibu_id]]
            /\ UNCHANGED <<authority, notVsWorld>>
       ELSE \E second \in {memoized(first, authority, compare_with.value)} :
            \E written \in {IF second[compare_with.value].none THEN second
                            ELSE [second EXCEPT ![ibu_id].direct_comparison =
                                     direct_comparison(second[ibu_id],
                                                       second[compare_with.value])]} :
               /\ performance_memo' = written
               /\ vs_world' = [status |-> 200, ibu_id |-> ibu_id,
                               compare_with |-> compare_with, body |-> written[ibu_id]]
               /\ UNCHANGED <<authority, notVsWorld>>

GetVsWorld ==
    \E ibu_id \in WorldAthletes \cup {UnknownWorldAthlete},
       compare_with \in {None} \cup {Some(other) : other \in WorldAthletes \cup {UnknownWorldAthlete}} :
        AthleteVsWorld(ibu_id, compare_with)

\* the process is started again: the memo is empty
VsWorldRestart ==
    /\ performance_memo # <<>>
    /\ performance_memo' = <<>>
    /\ vs_world' = NoVsWorld
    /\ UNCHANGED <<authority, notVsWorld>>

VsWorldIdle ==
    /\ authority = <<>>
    /\ performance_memo = <<>>
    /\ vs_world = NoVsWorld

StartVsWorld ==
    /\ authority \in [WorldAthletes -> AverageRanks]
    /\ performance_memo = <<>>
    /\ vs_world = NoVsWorld

NextVsWorld == GetVsWorld \/ VsWorldRestart

\* C27: the body returned by GET /analytics/athlete/{id}/vs-world depends only on
\* the current request's parameters and the upstream data: a request made without
\* compare_with never contains a direct_comparison field, whatever requests were
\* served before it, and a memoized performance entry is never modified after it
\* has been stored.
C27_BodyFromRequestOnly ==
    [][/\ (vs_world'.status = 200 /\ vs_world'.compare_with = None)
            => vs_world'.body.direct_comparison = Absent
       /\ \A key \in DOMAIN performance_memo \cap DOMAIN performance_memo' :
             performance_memo'[key] = performance_memo[key]]_vars

(***************************************************************************)
(* A failure of the authority during get_athletes                          *)
(***************************************************************************)

\* what the memo of get_athletes holds for (nation, limit), NotCached without entry
NotCached == [cached |-> FALSE]
CachedFor(cache, nation, limit) ==
    IF CacheIndex(cache, <<nation, limit>>) = 0 THEN NotCached
    ELSE [cached |-> TRUE, value |-> cache[CacheIndex(cache, <<nation, limit>>)].value]

\* the last response answers GET /athletes from an empty list of the service
ServiceReturnedEmpty ==
    /\ response.endpoint = "get_athletes"
    /\ response.body = <<>> \/ response.substituted

\* C28: if the upstream call fails during IBUFullService.get_athletes(nation, limit),
\* the call returns an empty list and that empty list is memoized: every later call
\* with the same (nation, limit) returns the empty list without contacting upstream,
\* even after upstream has recovered, for as long as the entry stays in the cache.
C28_FailureIsMemoized ==
    [][(response'.endpoint = "get_athletes" /\ upstream' = upstream) =>
          LET before == CachedFor(athletes_cache, response'.nation, response'.limit)
              after == CachedFor(athletes_cache', response'.nation, response'.limit)
          IN /\ (~before.cached /\ upstream = "down") =>
                   ServiceReturnedEmpty' /\ after = [cached |-> TRUE, value |-> <<>>]
             /\ (before.cached /\ before.value = <<>>) =>
                   ServiceReturnedEmpty' /\ after = before]_vars

\* the authority answers with standings again, and a request for Norwegian athletes
\* is still answered with the empty list memoized while it was down
C28_Witness ==
    /\ upstream = "standings"
    /\ response.endpoint = "get_athletes"
    /\ response.nation = "NOR"
    /\ response.body = <<>>
    /\ CachedFor(athletes_cache, "NOR", response.limit) = [cached |-> TRUE, value |-> <<>>]
    /\ get_athletes_body(upstream, "NOR", response.limit) # <<>>

(***************************************************************************)
(* GET /digital-twin/{athlete_id}/status                                   *)
(***************************************************************************)

\* the most simulations counted per process
MaxSimulations == 3

\* DigitalTwinEngine(): no twin, no simulation
NewEngine(s) == [twins |-> <<>>, heap |-> EmptyHeap, simulations |-> <<>>, rng |-> s]

\* the scenario and the race parameters the requests carry
StatusScenario ==
    [race_type |-> "sprint", laps |-> 2,
     modifications |-> <<[param |-> "shooting_technique", value |-> Percent(10)]>>]
StatusRace == RaceOver("sprint", 2)

\* len([s for s in digital_twin_engine.simulations if s.get('athlete_id') == athlete_id])
simulations_run(simulations, athlete_id) ==
    Len(SelectSeq(simulations, LAMBDA s : s.athlete_id = athlete_id))

NoStatus == [endpoint |-> "none"]

\* POST /{athlete_id}/simulate -> simulate_race_scenario: the twin is created with
\* the default world rank 50 when the registry has none
SimulateRequest(athlete_id) ==
    /\ performed < MaxSimulations
    /\ \E registered \in
          {IF athlete_id \in DOMAIN twin_service.twins
           THEN [twins |-> twin_service.twins, heap |-> twin_service.heap,
                 rng |-> twin_service.rng]
           ELSE With(Construct(twin_service.heap,
                               [NewTwin(athlete_id, 50, twin_service.rng)
                                   EXCEPT !.name = "Athlete"]),
                     LAMBDA built :
                     [twins |-> [a \in DOMAIN twin_service.twins \cup {athlete_id} |->
                                   IF a = athlete_id THEN built.ref ELSE twin_service.twins[a]],
                      heap |-> built.heap,
                      rng |-> rng_advance(twin_service.rng, 3)])} :
       \E result \in {simulate_race(registered.heap.twin[registered.twins[athlete_id]],
                                    registered.heap.curve, StatusRace, registered.rng)} :
          /\ twin_service' = [twins |-> registered.twins, heap |-> registered.heap,
                              simulations |-> twin_service.simulations,
                              rng |-> result.rng]
          /\ performed' = IF result.outcome.raised THEN performed ELSE performed + 1
          /\ twin_status' = [endpoint |-> "simulate", athlete_id |-> athlete_id,
                             status |-> IF result.outcome.raised THEN 500 ELSE 200]
    /\ UNCHANGED notStatus

\* POST /{athlete_id}/what-if -> analyze_what_if
WhatIfRequest(athlete_id) ==
    /\ performed < MaxSimulations
    /\ \E result \in {run_what_if_scenario(twin_service.twins, twin_service.heap, athlete_id,
                                           StatusScenario, twin_service.rng)} :
       \E kept \in {Collected(twin_service.twins, result.heap)} :
          /\ twin_service' = [twins |-> kept.twins, heap |-> kept.heap,
                              simulations |-> twin_service.simulations,
                              rng |-> result.rng]
          /\ performed' = IF result.outcome.raised THEN performed ELSE performed + 1
          /\ twin_status' = [endpoint |-> "what-if", athlete_id |-> athlete_id,
                             status |-> IF result.outcome.raised THEN 500 ELSE 200]
    /\ UNCHANGED notStatus

\* the handler get_twin_status
GetTwinStatus(athlete_id) ==
    /\ twin_status' =
          IF athlete_id \notin DOMAIN twin_service.twins
          THEN [endpoint |-> "status", athlete_id |-> athlete_id, status |-> 200,
                exists |-> FALSE]
          ELSE [endpoint |-> "status", athlete_id |-> athlete_id, status |-> 200,
                exists |-> TRUE,
                name |-> twin_service.heap.twin[twin_service.twins[athlete_id]].name,
                simulations_run |-> simulations_run(twin_service.simulations, athlete_id)]
    /\ UNCHANGED <<twin_service, performed, notStatus>>

\* the process is started again
StatusRestart ==
    /\ twin_service.twins # <<>>
    /\ \E s \in 0..(RngModulus - 1) : twin_service' = NewEngine(s)
    /\ performed' = 0
    /\ twin_status' = NoStatus
    /\ UNCHANGED notStatus

Simulate == SimulateRequest(TwinAthletes[1])
WhatIfOnce == WhatIfRequest(TwinAthletes[1])
TwinStatus == \E athlete_id \in {TwinAthletes[1], NoTwinAthlete} : GetTwinStatus(athlete_id)

StatusIdle ==
    /\ twin_service = NewEngine(0)
    /\ performed = 0
    /\ twin_status = NoStatus

StartStatus ==
    /\ twin_service \in {NewEngine(s) : s \in 0..(RngModulus - 1)}
    /\ performed = 0
    /\ twin_status = NoStatus

NextStatus == Simulate \/ WhatIfOnce \/ TwinStatus \/ StatusRestart

\* C29: the simulations_run value reported by GET /digital-twin/{id}/status equals
\* the number of simulations (simulate and what-if runs) performed for that athlete
\* since process start; in particular it is at least 1 after one successful simulate
\* request for that athlete.
C29_SimulationsRunCounts ==
    (twin_status.endpoint = "status" /\ twin_status.exists) =>
        twin_status.simulations_run = performed

(***************************************************************************)
(* GET /fatigue/team/analysis                                              *)
(***************************************************************************)

\* the athletes get_athletes(nation, 30) answers for the nation
TeamRoster ==
    << [id |-> "BTCZE1", name |-> "First", world_rank |-> 3],
       [id |-> "BTCZE2", name |-> "Second", world_rank |-> 40],
       [id |-> "BTCZE3", name |-> "Third", world_rank |-> 90] >>

\* no athlete of the nation, the first two, all three
TeamRosters == {<<>>, SubSeq(TeamRoster, 1, 2), TeamRoster}

PlainDate == "2024-01-20"
ZuluDate == "2024-01-21T13:15:00Z"

\* the results the authority holds: a win shot clean on a plainly dated day, a
\* 50th place with seven misses dated with a trailing Z, a result without a date
TeamResultKinds ==
    [win |-> [Date |-> Some(PlainDate), Rank |-> "1", RaceId |-> "R1",
              Shootings |-> <<"0", "+", "0">>],
     lost |-> [Date |-> Some(ZuluDate), Rank |-> "50", RaceId |-> "R2",
               Shootings |-> <<"3", "+", "4">>],
     undated |-> [Date |-> None, Rank |-> "7", RaceId |-> "R3",
                  Shootings |-> <<"1", "+", "0">>]]

\* br.all_results(id)["Results"] of one athlete
TeamResultLists ==
    { <<>>, <<TeamResultKinds.win>>, <<TeamResultKinds.lost>>,
      <<TeamResultKinds.win, TeamResultKinds.lost>>, <<TeamResultKinds.undated>> }

\* dict.get(key, default)
dict_get(dict, key, default) == IF key \in DOMAIN dict THEN dict[key] ELSE default

\* one entry of the history: the keys the fatigue engine can read (the entry has
\* no key 'shootings')
history_entry(result) ==
    [date |-> result.Date,
     rank |-> result.Rank,
     race_id |-> result.RaceId,
     shooting |-> _parse_shooting(result.Shootings)]

\* IBUFullService.get_athlete_history(athlete_id, limit), of the results the
\* authority holds for the athlete
get_athlete_history(results, limit) ==
    IF results = <<>> THEN [history |-> <<>>]
    ELSE [history |-> [i \in 1..Min2(limit, Len(results)) |-> history_entry(results[i])]]

\* datetime.fromisoformat(date), as the day of the month: None is not a string, and
\* whether a trailing Z is read depends on the interpreter (3.11 and later read it)
fromisoformat(date, zulu_parses) ==
    IF date.none THEN Raise("TypeError", 0, "fromisoformat: argument must be str")
    ELSE IF date.value = PlainDate THEN Return(20)
    ELSE IF date.value = ZuluDate /\ zulu_parses THEN Return(21)
    ELSE Raise("ValueError", 0, "Invalid isoformat string")

\* ShootingUnderFatigue(...) of one shot stage of a race, with the defaults of the code
bout_of(race, date, shot) ==
    [race_id |-> dict_get(race, "race_id", ""),
     date |-> date,
     position |-> dict_get(shot, "position", "prone"),
     sequence |-> dict_get(shot, "sequence", 1),
     arrival_hr |-> dict_get(shot, "arrival_hr", 170),
     shooting_hr |-> dict_get(shot, "shooting_hr", 130),
     hr_recovery_time |-> dict_get(shot, "recovery_time", 30),
     hits |-> dict_get(shot, "hits", 0),
     total_shots |-> dict_get(shot, "total", 5),
     shooting_time |-> dict_get(shot, "time", 30),
     pressure_situation |-> dict_get(shot, "situation", "pack")]

\* an extraction that takes the parsed 'shooting' of the entry for its shootings:
\* one bout per stage, five shots less the misses of the stage
bouts_of_parsed_shooting(race, date) ==
    LET pattern == dict_get(dict_get(race, "shooting", [pattern |-> <<>>]), "pattern", <<>>)
    IN [i \in 1..Len(pattern) |->
           bout_of(race, date, [sequence |-> i, hits |-> 5 - pattern[i],
                                position |-> IF i % 2 = 1 THEN "prone" ELSE "standing"])]

\* for shooting in race.get('shootings', []): the bouts of one race
bouts_of(race, date) ==
    LET shootings == dict_get(race, "shootings", <<>>)
    IN [i \in 1..Len(shootings) |-> bout_of(race, date, shootings[i])]

\* sorted(bouts, key=lambda x: x.date): stable
RECURSIVE sorted_by_date(_)
sorted_by_date(bouts) ==
    IF bouts = <<>> THEN <<>>
    ELSE LET last == bouts[Len(bouts)]
             before == sorted_by_date(SubSeq(bouts, 1, Len(bouts) - 1))
             k == Cardinality({i \in 1..Len(before) : before[i].date <= last.date})
         IN SubSeq(before, 1, k) \o <<last>> \o SubSeq(before, k + 1, Len(before))

\* FatigueResistanceEngine._extract_shooting_bouts(race_history)
RECURSIVE _extract_shooting_bouts(_, _, _)
_extract_shooting_bouts(race_history, zulu_parses, bouts) ==
    IF race_history = <<>> THEN Return(sorted_by_date(bouts))
    ELSE LET race_entry == Head(race_history)
             date == fromisoformat(dict_get(race_entry, "date", Some(PlainDate)), zulu_parses)
         IN IF date.raised THEN date
            ELSE _extract_shooting_bouts(Tail(race_history), zulu_parses,
                                         bouts \o bouts_of(race_entry, date.value))

\* fatigue_engine.analyze_athlete_complete(athlete_id, athlete_name, race_history)
analyze_race_history(team, athlete_id, race_history, zulu_parses) ==
    LET bouts == _extract_shooting_bouts(race_history, zulu_parses, <<>>)
    IN IF bouts.raised THEN [outcome |-> bouts, czech_team_data |-> team]
       ELSE analyze_athlete_complete(team, athlete_id, bouts.value)

\* the entry of athlete_profiles made of a profile
team_profile(athlete, fatigue_profile) ==
    [athlete_id |-> athlete.id,
     name |-> athlete.name,
     world_rank |-> athlete.world_rank,
     fatigue_score |-> fatigue_profile.fatigue_resistance_score,
     recovery_efficiency |-> fatigue_profile.recovery_efficiency,
     pressure_response |-> fatigue_profile.pressure_response,
     trend |-> fatigue_profile.trend_direction,
     czech_rank |-> fatigue_profile.czech_rank]

\* for athlete in athletes[:10]: an athlete without a history is passed over, and
\* so is one whose analysis raises
RECURSIVE team_loop(_, _, _, _, _)
team_loop(team, results, athletes, zulu_parses, team_profiles) ==
    IF athletes = <<>> THEN [team_profiles |-> team_profiles, held |-> team]
    ELSE LET athlete == Head(athletes)
             history == get_athlete_history(results[athlete.id], 30)
         IN IF history.history = <<>>
            THEN team_loop(team, results, Tail(athletes), zulu_parses, team_profiles)
            ELSE With(analyze_race_history(team, athlete.id, history.history, zulu_parses),
                      LAMBDA result :
                          team_loop(result.czech_team_data, results, Tail(athletes), zulu_parses,
                                    IF result.outcome.raised THEN team_profiles
                                    ELSE Append(team_profiles,
                                                team_profile(athlete, result.outcome.value))))

\* team_profiles.sort(key=lambda x: x["fatigue_score"], reverse=True): stable
RECURSIVE sort_by_fatigue_score(_)
sort_by_fatigue_score(team_profiles) ==
    IF team_profiles = <<>> THEN <<>>
    ELSE LET last == team_profiles[Len(team_profiles)]
             before == sort_by_fatigue_score(SubSeq(team_profiles, 1, Len(team_profiles) - 1))
             k == Cardinality({i \in 1..Len(before) :
                                  before[i].fatigue_score.v >= last.fatigue_score.v})
         IN SubSeq(before, 1, k) \o <<last>> \o SubSeq(before, k + 1, Len(before))

\* the sums of team_stats divided by athletes_analyzed, and the weakest areas
team_stats_of(team_profiles) ==
    LET analyzed == Len(team_profiles)
        mean(values) == IF analyzed > 0 THEN SumSeq(values) \div analyzed ELSE 0
        recovery == mean([i \in 1..analyzed |-> team_profiles[i].recovery_efficiency])
        pressure == mean([i \in 1..analyzed |-> team_profiles[i].pressure_response])
    IN [avg_resistance_score |-> mean([i \in 1..analyzed |-> team_profiles[i].fatigue_score.v]),
        avg_recovery_efficiency |-> recovery,
        avg_pressure_response |-> pressure,
        athletes_analyzed |-> analyzed,
        weakest_areas |->
            (IF recovery < 70 * Scale THEN <<"Recovery Efficiency">> ELSE <<>>)
            \o (IF pressure < 75 * Scale THEN <<"Pressure Handling">> ELSE <<>>)]

\* get_team_fatigue_analysis(nation): the answer and the peer map the engine is left with; the 404
\* raised for an empty roster is caught by the handler's own except and sent as 500
get_team_fatigue_analysis(team, results, athletes, zulu_parses) ==
    IF athletes = <<>>
    THEN [response |-> [status |-> 500, athlete_profiles |-> <<>>], held |-> team]
    ELSE With(team_loop(team, results, Take(athletes, 10), zulu_parses, <<>>),
              LAMBDA looped :
                  [response |-> [status |-> 200,
                                 team_stats |-> team_stats_of(looped.team_profiles),
                                 athlete_profiles |-> sort_by_fatigue_score(looped.team_profiles)],
                   held |-> looped.held])

NoTeamFatigue == [status |-> 0, athlete_profiles |-> <<>>]

\* GET /fatigue/team/analysis
GetTeamFatigueAnalysis(athletes, zulu_parses) ==
    \E answered \in {get_team_fatigue_analysis(team_engine, team_results, athletes, zulu_parses)} :
        /\ team_fatigue' = answered.response
        /\ team_engine' = answered.held
        /\ UNCHANGED <<team_results, notTeamFatigue>>

\* the authority holds other results for an athlete; the last answer has been sent
PublishResults(athlete_id, results) ==
    /\ team_results[athlete_id] # results
    /\ team_results' = [team_results EXCEPT ![athlete_id] = results]
    /\ team_fatigue' = NoTeamFatigue
    /\ UNCHANGED <<team_engine, notTeamFatigue>>

TeamFatigueAnalysis ==
    \E athletes \in TeamRosters, zulu_parses \in BOOLEAN :
        GetTeamFatigueAnalysis(athletes, zulu_parses)

ResultsArrive ==
    \E athlete_id \in TeamAthletes, results \in TeamResultLists :
        PublishResults(athlete_id, results)

TeamFatigueIdle ==
    /\ team_results = [athlete_id \in TeamAthletes |-> <<>>]
    /\ team_engine = <<>>
    /\ team_fatigue = NoTeamFatigue

StartTeamFatigue == TeamFatigueIdle

NextTeamFatigue == TeamFatigueAnalysis \/ ResultsArrive

\* the profile the engine gives to a history without a bout
AllDefaults(team_entry) ==
    /\ team_entry.fatigue_score = Num(80 * Scale)
    /\ team_entry.recovery_efficiency = 50 * Scale
    /\ team_entry.pressure_response = 75 * Scale
    /\ team_entry.czech_rank = 1

\* C30: the history entries of IBUFullService.get_athlete_history carry no
\* 'shootings' list, so the engine extracts no bout from them: every athlete that
\* appears in the answer of GET /fatigue/team/analysis has the all-defaults profile
\* (fatigue_score 80, recovery_efficiency 50, pressure_response 75) and czech_rank 1,
\* whatever the athlete's race results are.
C30_TeamProfilesAreDefaults ==
    \A i \in 1..Len(team_fatigue.athlete_profiles) :
        AllDefaults(team_fatigue.athlete_profiles[i])

\* two athletes of different results, a winner and a 50th, appear in one answer
C30_Witness ==
    /\ team_fatigue.status = 200
    /\ \E i, j \in 1..Len(team_fatigue.athlete_profiles) :
          /\ team_fatigue.athlete_profiles[i].athlete_id = "BTCZE1"
          /\ team_fatigue.athlete_profiles[j].athlete_id = "BTCZE2"
          /\ team_results["BTCZE1"] = <<TeamResultKinds.win>>
          /\ team_results["BTCZE2"] = <<TeamResultKinds.lost>>

(***************************************************************************)
(* Specifications                                                          *)
(***************************************************************************)

InitPoints == StartPoints /\ ApiIdle /\ DbIdle /\ FatigueIdle /\ AnalyticsIdle /\ TwinIdle /\ ShootingIdle /\ FormIdle /\ MemoIdle /\ IngestIdle /\ SeasonIdle /\ SimIdle /\ AdviceIdle /\ TrainingIdle /\ VsWorldIdle /\ StatusIdle /\ TeamFatigueIdle
SpecPoints == InitPoints /\ [][NextPoints]_vars

InitAthletes == StartAthletes /\ PointsIdle /\ DbIdle /\ FatigueIdle /\ AnalyticsIdle /\ TwinIdle /\ ShootingIdle /\ FormIdle /\ MemoIdle /\ IngestIdle /\ SeasonIdle /\ SimIdle /\ AdviceIdle /\ TrainingIdle /\ VsWorldIdle /\ StatusIdle /\ TeamFatigueIdle

InitApi == StartApi /\ PointsIdle /\ DbIdle /\ FatigueIdle /\ AnalyticsIdle /\ TwinIdle /\ ShootingIdle /\ FormIdle /\ MemoIdle /\ IngestIdle /\ SeasonIdle /\ SimIdle /\ AdviceIdle /\ TrainingIdle /\ VsWorldIdle /\ StatusIdle /\ TeamFatigueIdle
SpecApi == InitApi /\ [][NextApi]_vars

InitDb == StartDb /\ PointsIdle /\ ApiIdle /\ FatigueIdle /\ AnalyticsIdle /\ TwinIdle /\ ShootingIdle /\ FormIdle /\ MemoIdle /\ IngestIdle /\ SeasonIdle /\ SimIdle /\ AdviceIdle /\ TrainingIdle /\ VsWorldIdle /\ StatusIdle /\ TeamFatigueIdle
SpecDb == InitDb /\ [][NextDb]_vars

InitFatigue == StartFatigue /\ PointsIdle /\ ApiIdle /\ DbIdle /\ AnalyticsIdle /\ TwinIdle /\ ShootingIdle /\ FormIdle /\ MemoIdle /\ IngestIdle /\ SeasonIdle /\ SimIdle /\ AdviceIdle /\ TrainingIdle /\ VsWorldIdle /\ StatusIdle /\ TeamFatigueIdle
SpecFatigue == InitFatigue /\ [][NextFatigue]_vars

InitAnalytics == StartAnalytics /\ PointsIdle /\ ApiIdle /\ DbIdle /\ FatigueIdle /\ TwinIdle /\ ShootingIdle /\ FormIdle /\ MemoIdle /\ IngestIdle /\ SeasonIdle /\ SimIdle /\ AdviceIdle /\ TrainingIdle /\ VsWorldIdle /\ StatusIdle /\ TeamFatigueIdle
SpecAnalytics == InitAnalytics /\ [][NextAnalytics]_vars

InitTwin == StartTwin /\ PointsIdle /\ ApiIdle /\ DbIdle /\ FatigueIdle /\ AnalyticsIdle /\ ShootingIdle /\ FormIdle /\ MemoIdle /\ IngestIdle /\ SeasonIdle /\ SimIdle /\ AdviceIdle /\ TrainingIdle /\ VsWorldIdle /\ StatusIdle /\ TeamFatigueIdle
SpecTwin == InitTwin /\ [][NextTwin]_vars

SpecAthletes == InitAthletes /\ [][NextAthletes]_vars

InitShooting == StartShooting /\ PointsIdle /\ ApiIdle /\ DbIdle /\ FatigueIdle /\ AnalyticsIdle /\ TwinIdle /\ FormIdle /\ MemoIdle /\ IngestIdle /\ SeasonIdle /\ SimIdle /\ AdviceIdle /\ TrainingIdle /\ VsWorldIdle /\ StatusIdle /\ TeamFatigueIdle
SpecShooting == InitShooting /\ [][NextShooting]_vars

InitForm == StartForm /\ PointsIdle /\ ApiIdle /\ DbIdle /\ FatigueIdle /\ AnalyticsIdle /\ TwinIdle /\ ShootingIdle /\ MemoIdle /\ IngestIdle /\ SeasonIdle /\ SimIdle /\ AdviceIdle /\ TrainingIdle /\ VsWorldIdle /\ StatusIdle /\ TeamFatigueIdle
SpecForm == InitForm /\ [][NextForm]_vars

InitMemo == StartMemo /\ PointsIdle /\ ApiIdle /\ DbIdle /\ FatigueIdle /\ AnalyticsIdle /\ TwinIdle /\ ShootingIdle /\ FormIdle /\ IngestIdle /\ SeasonIdle /\ SimIdle /\ AdviceIdle /\ TrainingIdle /\ VsWorldIdle /\ StatusIdle /\ TeamFatigueIdle
SpecMemo == InitMemo /\ [][NextMemo]_vars

InitIngest == StartIngest /\ PointsIdle /\ ApiIdle /\ DbIdle /\ FatigueIdle /\ AnalyticsIdle /\ TwinIdle /\ ShootingIdle /\ FormIdle /\ MemoIdle /\ SeasonIdle /\ SimIdle /\ AdviceIdle /\ TrainingIdle /\ VsWorldIdle /\ StatusIdle /\ TeamFatigueIdle
SpecIngest == InitIngest /\ [][NextIngest]_vars

InitSeason == StartSeason /\ PointsIdle /\ ApiIdle /\ DbIdle /\ FatigueIdle /\ AnalyticsIdle /\ TwinIdle /\ ShootingIdle /\ FormIdle /\ MemoIdle /\ IngestIdle /\ SimIdle /\ AdviceIdle /\ TrainingIdle /\ VsWorldIdle /\ StatusIdle /\ TeamFatigueIdle
SpecSeason == InitSeason /\ [][NextSeason]_vars

InitCreate == StartCreate /\ PointsIdle /\ ApiIdle /\ DbIdle /\ FatigueIdle /\ AnalyticsIdle /\ TwinIdle /\ ShootingIdle /\ FormIdle /\ MemoIdle /\ IngestIdle /\ SeasonIdle /\ AdviceIdle /\ TrainingIdle /\ VsWorldIdle /\ StatusIdle /\ TeamFatigueIdle
SpecCreate == InitCreate /\ [][NextCreate]_vars

InitRace == StartRace /\ PointsIdle /\ ApiIdle /\ DbIdle /\ FatigueIdle /\ AnalyticsIdle /\ TwinIdle /\ ShootingIdle /\ FormIdle /\ MemoIdle /\ IngestIdle /\ SeasonIdle /\ AdviceIdle /\ TrainingIdle /\ VsWorldIdle /\ StatusIdle /\ TeamFatigueIdle
SpecRace == InitRace /\ [][NextRace]_vars

InitAdvice == StartAdvice /\ PointsIdle /\ ApiIdle /\ DbIdle /\ FatigueIdle /\ AnalyticsIdle /\ TwinIdle /\ ShootingIdle /\ FormIdle /\ MemoIdle /\ IngestIdle /\ SeasonIdle /\ SimIdle /\ TrainingIdle /\ VsWorldIdle /\ StatusIdle /\ TeamFatigueIdle
SpecAdvice == InitAdvice /\ [][NextAdvice]_vars

InitTeam == StartTeam /\ PointsIdle /\ ApiIdle /\ DbIdle /\ AnalyticsIdle /\ TwinIdle /\ ShootingIdle /\ FormIdle /\ MemoIdle /\ IngestIdle /\ SeasonIdle /\ SimIdle /\ AdviceIdle /\ TrainingIdle /\ VsWorldIdle /\ StatusIdle /\ TeamFatigueIdle
SpecTeam == InitTeam /\ [][NextTeam]_vars

InitBatch == StartBatch /\ PointsIdle /\ ApiIdle /\ DbIdle /\ FatigueIdle /\ AnalyticsIdle /\ ShootingIdle /\ FormIdle /\ MemoIdle /\ IngestIdle /\ SeasonIdle /\ SimIdle /\ AdviceIdle /\ TrainingIdle /\ VsWorldIdle /\ StatusIdle /\ TeamFatigueIdle
SpecBatch == InitBatch /\ [][NextBatch]_vars

InitTraining == StartTraining /\ PointsIdle /\ ApiIdle /\ DbIdle /\ FatigueIdle /\ AnalyticsIdle /\ TwinIdle /\ ShootingIdle /\ FormIdle /\ MemoIdle /\ IngestIdle /\ SeasonIdle /\ SimIdle /\ AdviceIdle /\ VsWorldIdle /\ StatusIdle /\ TeamFatigueIdle
SpecTraining == InitTraining /\ [][NextTraining]_vars

InitVsWorld == StartVsWorld /\ PointsIdle /\ ApiIdle /\ DbIdle /\ FatigueIdle /\ AnalyticsIdle /\ TwinIdle /\ ShootingIdle /\ FormIdle /\ MemoIdle /\ IngestIdle /\ SeasonIdle /\ SimIdle /\ AdviceIdle /\ TrainingIdle /\ StatusIdle /\ TeamFatigueIdle
SpecVsWorld == InitVsWorld /\ [][NextVsWorld]_vars

InitStatus == StartStatus /\ PointsIdle /\ ApiIdle /\ DbIdle /\ FatigueIdle /\ AnalyticsIdle /\ TwinIdle /\ ShootingIdle /\ FormIdle /\ MemoIdle /\ IngestIdle /\ SeasonIdle /\ SimIdle /\ AdviceIdle /\ TrainingIdle /\ VsWorldIdle /\ TeamFatigueIdle
SpecStatus == InitStatus /\ [][NextStatus]_vars

InitTeamFatigue == StartTeamFatigue /\ PointsIdle /\ ApiIdle /\ DbIdle /\ FatigueIdle /\ AnalyticsIdle /\ TwinIdle /\ ShootingIdle /\ FormIdle /\ MemoIdle /\ IngestIdle /\ SeasonIdle /\ SimIdle /\ AdviceIdle /\ TrainingIdle /\ VsWorldIdle /\ StatusIdle
SpecTeamFatigue == InitTeamFatigue /\ [][NextTeamFatigue]_vars

====
